---- MODULE Spec2Model ----
(***************************************************************************)
(* A model of pyrobolearn/simulators/bullet.py: the Bullet adapter, a      *)
(* stateless layer that turns each public operation into calls on the      *)
(* PyBullet engine client (self.sim).                                      *)
(*                                                                         *)
(* The caller is at "idle" or inside one adapter operation ("done" holds   *)
(* the finished operation: its name, its arguments, the engine calls it    *)
(* issued in order, its return value and the error it raised).  The engine *)
(* is the only thing that keeps state between operations.                  *)
(*                                                                         *)
(* Python values: None is the empty tuple and a supplied value v is <<v>>, *)
(* so that "x is not None" and the truth value of x stay different tests.  *)
(* False and 0 are the same number 0, as in Python (False == 0).           *)
(***************************************************************************)
EXTENDS Integers, Sequences, FiniteSets, TLC

VARIABLES
    pc,       \* "idle": between operations; "done": an operation has finished
    op,       \* the operation that finished
    args,     \* its arguments
    calls,    \* the engine calls it issued, in order
    ret,      \* the value it returned
    err,      \* the error it raised ("none" when it returned)
    engine,   \* the state of the engine
    pre,      \* the state of the engine when the operation was entered
    self,     \* the fields of the adapter object
    held      \* what the caller holds of its last save: the value returned

vars == <<pc, op, args, calls, ret, err, engine, pre, self, held>>

(***************************************************************************)
(* Bounds of the model.                                                    *)
(***************************************************************************)
\* the largest number of optional parameters a caller supplies in one call
MaxGiven == 2
\* the joints (= links) of the body are 0 .. MaxJoint
MaxJoint == 1
\* the longest list of identifiers a caller passes to a batch accessor
MaxList == 2
\* the largest number of simulation steps taken
MaxTime == 1
\* the largest number of loggers started
MaxLoggers == 2
\* the largest number of states the engine keeps, in memory and in files
MaxSaves == 1
\* the angles a caller passes are the multiples of 45 degrees (pi/4) from
\* -MaxAngle to MaxAngle times 45 degrees
MaxAngle == 2

(***************************************************************************)
(* Engine constants (pybullet), as the docstrings of the adapter give them.*)
(***************************************************************************)
VELOCITY_CONTROL == 0
TORQUE_CONTROL == 1
POSITION_CONTROL == 2
JOINT_REVOLUTE == 0
JOINT_PRISMATIC == 1
JOINT_FIXED == 4
GEOM_SPHERE == 2
GEOM_BOX == 3
GEOM_CYLINDER == 4
GEOM_MESH == 5
GEOM_PLANE == 6
GEOM_CAPSULE == 7

(***************************************************************************)
(* Python values.                                                          *)
(***************************************************************************)
None == <<>>
Some(v) == <<v>>
Get(x) == x[1]
\* the values a caller supplies for an optional parameter: 0 (or False) and 1
Val == {0, 1}
Joints == 0 .. MaxJoint
\* the links of the body: the base, -1, and the link of each joint
Links == -1 .. MaxJoint

\* one engine call: the client method, its positional arguments, its keywords
Call(fn, pos, kw) == [fn |-> fn, pos |-> pos, kw |-> kw]
NoKw == [k \in {} |-> 0]

\* the subsets of P with at most k elements
RECURSIVE UpTo(_, _)
UpTo(P, k) == IF k = 0 THEN {{}}
              ELSE LET prev == UpTo(P, k - 1)
                   IN  prev \cup {S \cup {p} : S \in prev, p \in P}

\* the argument sets of a setter with optional parameters P: every subset of
\* at most MaxGiven parameters supplied, with a value of Val
OptArgs(P) == {[p \in P |-> IF p \in S THEN Some(v) ELSE None] :
                 S \in UpTo(P, MaxGiven), v \in Val}

Range(s) == {s[i] : i \in 1 .. Len(s)}

(***************************************************************************)
(* The optional-keyword accumulation every structured setter uses:         *)
(*     kwargs = {}                                                         *)
(*     if p is not None: kwargs[K] = p      (once per parameter)           *)
(* table is the sequence of <<parameter, engine keyword>> in source order. *)
(***************************************************************************)
BuildKwargsTruthy(table, a) ==
    LET given == {i \in 1 .. Len(table) :
                    a[table[i][1]] # None /\ Get(a[table[i][1]]) # 0}
    IN  [k \in {table[i][2] : i \in given} |->
            LET i == CHOOSE j \in given : table[j][2] = k
            IN  Get(a[table[i][1]])]

BuildKwargs(table, a) ==
    LET given == {i \in 1 .. Len(table) : a[table[i][1]] # None}
    IN  [k \in {table[i][2] : i \in given} |->
            LET i == CHOOSE j \in given : table[j][2] = k
            IN  Get(a[table[i][1]])]

\* a keyword map extended with one more keyword (f(**kwargs, k=v))
With(kw, k, v) == [x \in DOMAIN kw \cup {k} |-> IF x = k THEN v ELSE kw[x]]

\* the keywords of a call: names and their values, in the same order
Kw(names, values) ==
    [k \in Range(names) |-> values[CHOOSE i \in 1 .. Len(names) : names[i] = k]]

\* the parameters of a table
Params(table) == {table[i][1] : i \in 1 .. Len(table)}

PhysicsTable ==
    << <<"time_step", "fixedTimeStep">>,
       <<"num_solver_iterations", "numSolverIterations">>,
       <<"use_split_impulse", "useSplitImpulse">>,
       <<"split_impulse_penetration_threshold", "splitImpulsePenetrationThreshold">>,
       <<"num_sub_steps", "numSubSteps">>,
       <<"collision_filter_mode", "collisionFilterMode">>,
       <<"contact_breaking_threshold", "contactBreakingThreshold">>,
       <<"max_num_cmd_per_1ms", "maxNumCmdPer1ms">>,
       <<"enable_file_caching", "enableFileCaching">>,
       <<"restitution_velocity_threshold", "restitutionVelocityThreshold">>,
       <<"erp", "erp">>,
       <<"contact_erp", "contactERP">>,
       <<"friction_erp", "frictionERP">>,
       <<"enable_cone_friction", "enableConeFriction">>,
       <<"deterministic_overlapping_pairs", "deterministicOverlappingPairs">>,
       <<"solver_residual_threshold", "solverResidualThreshold">> >>

ConstraintTable ==
    << <<"child_joint_pivot", "jointChildPivot">>,
       <<"child_frame_orientation", "jointChildFrameOrientation">>,
       <<"max_force", "maxForce">>,
       <<"gear_ratio", "gearRatio">>,
       <<"gear_auxiliary_link", "gearAuxLink">>,
       <<"relative_position_target", "relativePositionTarget">>,
       <<"erp", "erp">> >>

DynamicsTable ==
    << <<"mass", "mass">>,
       <<"lateral_friction", "lateralFriction">>,
       <<"spinning_friction", "spinningFriction">>,
       <<"rolling_friction", "rollingFriction">>,
       <<"restitution", "restitution">>,
       <<"linear_damping", "linearDamping">>,
       <<"angular_damping", "angularDamping">>,
       <<"contact_stiffness", "contactStiffness">>,
       <<"contact_damping", "contactDamping">>,
       <<"friction_anchor", "frictionAnchor">>,
       <<"local_inertia_diagonal", "localInertiaDiagonal">>,
       <<"joint_damping", "jointDamping">> >>

VisualTable ==
    << <<"shape_id", "shapeIndex">>,
       <<"texture_id", "textureUniqueId">>,
       <<"rgba_color", "rgbaColor">>,
       <<"specular_color", "specularColor">> >>

MotorTable ==
    << <<"position", "targetPosition">>,
       <<"velocity", "targetVelocity">>,
       <<"force", "force">>,
       <<"kp", "positionGain">>,
       <<"kd", "velocityGain">>,
       <<"max_velocity", "maxVelocity">> >>

MotorArrayTable ==
    << <<"positions", "targetPositions">>,
       <<"velocities", "targetVelocities">>,
       <<"forces", "forces">>,
       <<"kps", "positionGains">>,
       <<"kds", "velocityGains">> >>

(***************************************************************************)
(* Python and NumPy values.  An int and a list are told apart by           *)
(* isinstance; a tuple the engine returns is a TLA+ sequence; a NumPy      *)
(* array is its shape and its elements in row-major order.  Floats are     *)
(* integers.                                                               *)
(***************************************************************************)
PyInt(i) == [type |-> "int", v |-> i]
PyList(s) == [type |-> "list", v |-> s]
PyTuple(s) == [type |-> "tuple", v |-> s]
\* an np.quaternion object: its components are w, x, y, z (scalar first)
Quaternion(w, x, y, z) == [type |-> "quaternion", w |-> w, x |-> x, y |-> y, z |-> z]
isinstance(x, ty) == x.type = ty

\* t[k], t[a:b] and t[-k] of a tuple (Python counts from 0)
At(t, k) == t[k + 1]
Slice(t, a, b) == SubSeq(t, a + 1, b)
FromEnd(t, k) == t[Len(t) - k + 1]

RECURSIVE Flatten(_)
Flatten(ss) == IF ss = <<>> THEN <<>> ELSE Head(ss) \o Flatten(Tail(ss))

\* np.array of a tuple or list of numbers
np_array(xs) == [type |-> "ndarray", shape |-> <<Len(xs)>>, data |-> xs]
\* np.array of a list of equally long tuples (or 1-d arrays, given by their
\* elements): a 2-d array
np_array2(rows) ==
    [type |-> "ndarray",
     shape |-> IF rows = <<>> THEN <<0>> ELSE <<Len(rows), Len(rows[1])>>,
     data |-> Flatten(rows)]
\* np.concatenate((a, b)) of two tuples or 1-d arrays, given by their elements
np_concatenate(a, b) == np_array(a \o b)
\* a[k] of an array: a number of a 1-d array, a row of a 2-d array
np_item(a, k) ==
    IF Len(a.shape) = 1 THEN a.data[k + 1]
    ELSE np_array(SubSeq(a.data, k * a.shape[2] + 1, (k + 1) * a.shape[2]))
\* np.array of a number: an array without dimensions
np_array0(x) == [type |-> "ndarray", shape |-> <<>>, data |-> <<x>>]
\* np.zeros(n)
np_zeros(n) == np_array([k \in 1 .. n |-> 0])
\* the rows of a 2-d array
Rows(a) == [r \in 1 .. a.shape[1] |->
               SubSeq(a.data, (r - 1) * a.shape[2] + 1, r * a.shape[2])]
\* a.ravel().tolist() of an array, and a list as it is
ToList(x) == IF x.type = "ndarray" THEN x.data ELSE x.v
RECURSIVE SumSeq(_)
SumSeq(xs) == IF xs = <<>> THEN 0 ELSE Head(xs) + SumSeq(Tail(xs))
\* a - b of an array a of at most one dimension and a 1-d array b, by the
\* broadcasting rule: the lengths agree, or one of them is 1; None when
\* NumPy refuses the shapes
np_subtract(a, b) ==
    LET k == Len(a.data)
        n == Len(b.data)
    IN  IF a.shape = <<>> \/ k = 1
          THEN Some(np_array([i \in 1 .. n |-> a.data[1] - b.data[i]]))
        ELSE IF n = 1
          THEN Some(np_array([i \in 1 .. k |-> a.data[i] - b.data[1]]))
        ELSE IF k = n
          THEN Some(np_array([i \in 1 .. n |-> a.data[i] - b.data[i]]))
        ELSE None
\* H.dot(v) of a 2-d array and a 1-d array; None when the shapes do not fit
np_dot(H, v) ==
    IF H.shape[2] = Len(v.data)
    THEN Some(np_array([r \in 1 .. H.shape[1] |->
                 SumSeq([c \in 1 .. H.shape[2] |-> Rows(H)[r][c] * v.data[c]])]))
    ELSE None
\* the matrix without row r and column c
Minor(M, r, c) ==
    [i \in 1 .. Len(M) - 1 |->
        [j \in 1 .. Len(M) - 1 |->
            M[IF i < r THEN i ELSE i + 1][IF j < c THEN j ELSE j + 1]]]
Sign(k) == IF k % 2 = 0 THEN 1 ELSE -1
RECURSIVE Det(_)
Det(M) == IF Len(M) = 0 THEN 1
          ELSE SumSeq([c \in 1 .. Len(M) |->
                          Sign(1 + c) * M[1][c] * Det(Minor(M, 1, c))])
\* np.linalg.inv of a square array whose inverse has whole entries
np_linalg_inv(a) ==
    LET M == Rows(a)
    IN  np_array2([r \in 1 .. Len(M) |->
                      [c \in 1 .. Len(M) |->
                          (Sign(r + c) * Det(Minor(M, c, r))) \div Det(M)]])
\* a[i] for a 1-d array and an index i or a 1-d array of indices (an index
\* counts from the end when negative); None when an index is out of range
np_take(a, i) ==
    LET n == Len(a.data)
        pos(k) == IF k < 0 THEN n + k + 1 ELSE k + 1
    IN  IF i.type = "int"
        THEN IF pos(i.v) \in 1 .. n THEN Some(a.data[pos(i.v)]) ELSE None
        ELSE IF \A m \in 1 .. Len(i.data) : pos(i.data[m]) \in 1 .. n
             THEN Some(np_array([m \in 1 .. Len(i.data) |-> a.data[pos(i.data[m])]]))
             ELSE None
\* a.reshape(r, c) of an array with r * c elements
np_reshape(a, r, c) == [a EXCEPT !.shape = <<r, c>>]
\* a.T of a 2-d array
np_T(a) ==
    [type |-> "ndarray",
     shape |-> << a.shape[2], a.shape[1] >>,
     data |-> [i \in 1 .. Len(a.data) |->
                 a.data[((i - 1) % a.shape[1]) * a.shape[2]
                        + ((i - 1) \div a.shape[1]) + 1]]]
\* An angle is the number n * (pi/180)^k, kept exactly: n whole, k the power
\* of pi/180 (pi is transcendental, so different pairs with n # 0 are
\* different numbers).  Real(60, 1) is pi/3, Real(60, 0) is 60.
Real(n, k) == [n |-> n, k |-> IF n = 0 THEN 0 ELSE k]
\* np.rad2deg(x) = x * 180 / pi and np.deg2rad(x) = x * pi / 180
np_rad2deg(x) == Real(x.n, x.k - 1)
np_deg2rad(x) == Real(x.n, x.k + 1)
\* a - c and a * b, element by element, for a 1-d array
np_minus(a, c) == [a EXCEPT !.data = [k \in DOMAIN a.data |-> a.data[k] - c]]
np_times(a, b) == [a EXCEPT !.data = [k \in DOMAIN a.data |-> a.data[k] * b.data[k]]]

(***************************************************************************)
(* The course of (a part of) an operation: the engine calls issued so far, *)
(* the value obtained, and the error that ended it ("none": no error).     *)
(***************************************************************************)
Outcome(cs, r, e) == [calls |-> cs, ret |-> r, err |-> e]
Pure(v) == Outcome(<<>>, Some(v), "none")
\* one engine call; ans is None when the engine refuses the call
Sim(fn, pos, kw, ans) ==
    Outcome(<< Call(fn, pos, kw) >>, ans, IF ans = None THEN "engine" ELSE "none")
\* o, and then F on its value: an error ends the operation where it occurs
Then(o, F(_)) ==
    IF o.err # "none" THEN o
    ELSE LET n == F(Get(o.ret))
         IN  Outcome(o.calls \o n.calls, n.ret, n.err)
Map(o, F(_)) == IF o.err # "none" THEN o ELSE Outcome(o.calls, Some(F(Get(o.ret))), "none")
\* o, its value dropped: the operation returns None
Discard(o) == Outcome(o.calls, None, o.err)
\* [F(x) for x in xs]: the parts run in order and stop at the first error
ListComp(xs, F(_)) ==
    LET os == [k \in 1 .. Len(xs) |-> F(xs[k])]
        bad == {k \in 1 .. Len(xs) : os[k].err # "none"}
        upto == IF bad = {} THEN Len(xs)
                ELSE CHOOSE k \in bad : \A m \in bad : k <= m
        cs == Flatten([k \in 1 .. upto |-> os[k].calls])
    IN  IF bad = {}
        THEN Outcome(cs, Some([k \in 1 .. Len(xs) |-> Get(os[k].ret)]), "none")
        ELSE Outcome(cs, None, os[upto].err)

(***************************************************************************)
(* The engine.  It holds one body (id 0) whose links are the base, -1, and *)
(* one link per joint.  It keeps, per joint, the control mode of the joint *)
(* motor (every joint motor is enabled, in velocity control, when a body   *)
(* is loaded).  A motor command sets the mode of the joints it addresses.  *)
(***************************************************************************)
\* the type of each joint, the time steps taken so far (the joint and link
\* states move with them), the pose of the base, and the camera of the debug
\* visualizer: the engine keeps and returns its yaw and pitch in degrees
InitEngine ==
    [controlMode |-> [j \in Joints |-> VELOCITY_CONTROL],
     jointType |-> [j \in Joints |-> JOINT_REVOLUTE],
     numJoints |-> MaxJoint + 1,
     t |-> 0,
     basePos |-> <<0, 0, 0>>,
     baseOrn |-> <<0, 0, 0, 1>>,
     gravity |-> <<0, 0, 0>>,
     started |-> 0,
     loggers |-> {},
     contactsAt |-> None,
     ground |-> [pos |-> <<0, 0, 0>>, orn |-> <<0, 0, 0, 1>>],
     bodies |-> {0, 1},
     saved |-> <<>>,
     files |-> NoKw,
     cam |-> [yaw |-> Real(50, 0), pitch |-> Real(-35, 0), dist |-> 1,
              target |-> <<0, 0, 0>>]]

\* what the engine holds for a joint, a link or the base: every field of
\* every identifier at every time has a value of its own
Code(field, id, t) == 100 * field + 10 * (id + 1) + t
Vec(n, c) == [k \in 1 .. n |-> c + 1000 * k]
Name(kind, id) == [name |-> kind, of |-> id]

\* the degrees of freedom of the body: a fixed joint has none
\* the joints and the links the body has
JointsOf(e) == 0 .. e.numJoints - 1
LinksOf(e) == -1 .. e.numJoints - 1
Actuated(e) == {j \in JointsOf(e) : e.jointType[j] # JOINT_FIXED}
\* the index of a joint in the position vector of the body, whose first
\* seven entries are the pose of the base; -1 for a fixed joint
QIndexOf(e, j) ==
    IF j \in Actuated(e) THEN 7 + Cardinality({i \in Actuated(e) : i < j}) ELSE -1

\* getJointInfo: jointIndex, jointName, jointType, qIndex, uIndex, flags,
\* jointDamping, jointFriction, jointLowerLimit, jointUpperLimit,
\* jointMaxForce, jointMaxVelocity, linkName, jointAxis, parentFramePos,
\* parentFrameOrn, parentIndex
JointInfoOf(e, j) ==
    << j, Name("joint", j), e.jointType[j], QIndexOf(e, j), QIndexOf(e, j) - 1, 0,
       Code(10, j, 0), Code(11, j, 0), Code(12, j, 0), Code(13, j, 0),
       Code(14, j, 0), Code(15, j, 0), Name("link", j), Vec(3, Code(16, j, 0)),
       Vec(3, Code(17, j, 0)), Vec(4, Code(18, j, 0)), j - 1 >>
\* getJointState: position, velocity, reaction forces, applied torque
JointStateOf(e, j) ==
    << Code(20, j, e.t), Code(21, j, e.t), Vec(6, Code(22, j, e.t)),
       Code(23, j, e.t) >>
\* getLinkState: world position and orientation of the centre of mass, local
\* inertial frame, world link frame and, when asked for, the linear and the
\* angular velocity
LinkStateOf(e, l, velocity) ==
    << Vec(3, Code(30, l, e.t)), Vec(4, Code(31, l, e.t)),
       Vec(3, Code(32, l, 0)), Vec(4, Code(33, l, 0)),
       Vec(3, Code(34, l, e.t)), Vec(4, Code(35, l, e.t)) >>
    \o IF velocity THEN << Vec(3, Code(36, l, e.t)), Vec(3, Code(37, l, e.t)) >>
       ELSE <<>>
\* getDynamicsInfo: mass, lateral friction, local inertia diagonal, ...
DynamicsInfoOf(e, l) ==
    << Code(40, l, 0), Code(41, l, 0), Vec(3, Code(42, l, 0)) >>
\* getBaseVelocity: linear and angular velocity of the base
BaseVelocityOf(e) == << Vec(3, Code(50, -1, e.t)), Vec(3, Code(51, -1, e.t)) >>

(***************************************************************************)
(* The queries of the engine client (self.sim).  The engine refuses a      *)
(* joint or link index the body does not have; getLinkState has no link    *)
(* -1 (the base is read with the base queries), getDynamicsInfo has.       *)
(***************************************************************************)
sim_getJointInfo(e, j) ==
    Sim("getJointInfo", <<0, j>>, NoKw,
        IF j \in JointsOf(e) THEN Some(JointInfoOf(e, j)) ELSE None)
sim_getJointState(e, j) ==
    Sim("getJointState", <<0, j>>, NoKw,
        IF j \in JointsOf(e) THEN Some(JointStateOf(e, j)) ELSE None)
sim_getJointStates(e, js) ==
    Sim("getJointStates", <<0, js>>, NoKw,
        IF Range(js) \subseteq JointsOf(e)
        THEN Some([k \in 1 .. Len(js) |-> JointStateOf(e, js[k])]) ELSE None)
sim_getLinkState(e, l, kw) ==
    Sim("getLinkState", <<0, l>>, kw,
        IF l \in JointsOf(e)
        THEN Some(LinkStateOf(e, l, "computeLinkVelocity" \in DOMAIN kw
                                    /\ kw["computeLinkVelocity"] = 1))
        ELSE None)
sim_getDynamicsInfo(e, l) ==
    Sim("getDynamicsInfo", <<0, l>>, NoKw,
        IF l \in LinksOf(e) THEN Some(DynamicsInfoOf(e, l)) ELSE None)
sim_getBasePositionAndOrientation(e) ==
    Sim("getBasePositionAndOrientation", <<0>>, NoKw,
        Some(<< e.basePos, e.baseOrn >>))
sim_getNumJoints(e) == Sim("getNumJoints", <<0>>, NoKw, Some(e.numJoints))
\* the joint-space inertia matrix of the body (symmetric, positive definite)
MassMatrixOf(e) ==
    [r \in 1 .. Cardinality(Actuated(e)) |->
        [c \in 1 .. Cardinality(Actuated(e)) |-> IF r < c THEN r ELSE c]]
\* the engine refuses position, velocity or acceleration vectors that do not
\* have one entry per degree of freedom
sim_calculateMassMatrix(e, q) ==
    Sim("calculateMassMatrix", <<0, q>>, NoKw,
        IF Len(q) = Cardinality(Actuated(e)) THEN Some(MassMatrixOf(e)) ELSE None)
\* tau = H ddq + C(q, dq)
InverseDynamicsOf(e, q, dq, ddq) ==
    [k \in 1 .. Cardinality(Actuated(e)) |->
        SumSeq([c \in 1 .. Cardinality(Actuated(e)) |-> MassMatrixOf(e)[k][c] * ddq[c]])
        + q[k] + dq[k]]
sim_calculateInverseDynamics(e, q, dq, ddq) ==
    Sim("calculateInverseDynamics", <<0, q, dq, ddq>>, NoKw,
        IF /\ Len(q) = Cardinality(Actuated(e))
           /\ Len(dq) = Cardinality(Actuated(e))
           /\ Len(ddq) = Cardinality(Actuated(e))
        THEN Some(InverseDynamicsOf(e, q, dq, ddq)) ELSE None)
sim_getBaseVelocity(e) ==
    Sim("getBaseVelocity", <<0>>, NoKw, Some(BaseVelocityOf(e)))

\* the engine reads a vector or an orientation from any sequence of numbers
\* (a tuple, a list, an array); it cannot read one from a quaternion object
Readable(v) == v.type \in {"tuple", "list", "ndarray"}
Components(v) == IF v.type = "ndarray" THEN v.data ELSE v.v

\* the control mode a motor command carries: the keyword, or the third
\* positional argument
ModeOf(c) == IF "controlMode" \in DOMAIN c.kw THEN c.kw["controlMode"]
             ELSE c.pos[3]

\* the world of the engine: what a saved state holds, and the engine with
\* the world w restored
World(e) ==
    [t |-> e.t, basePos |-> e.basePos, baseOrn |-> e.baseOrn, ground |-> e.ground,
     bodies |-> e.bodies, contactsAt |-> e.contactsAt]
Restore(e, w) ==
    [e EXCEPT !.t = w.t, !.basePos = w.basePos, !.baseOrn = w.baseOrn,
              !.ground = w.ground, !.bodies = w.bodies, !.contactsAt = w.contactsAt]

\* the engine after one call
Apply(e, c) ==
    CASE c.fn = "setJointMotorControl2" ->
           IF isinstance(c.pos[2], "int")
           THEN [e EXCEPT !.controlMode[c.pos[2].v] = ModeOf(c)] ELSE e
      [] c.fn = "setJointMotorControlArray" ->
           IF isinstance(c.pos[2], "int") THEN e
           ELSE [e EXCEPT !.controlMode =
                   [j \in Joints |-> IF j \in Range(ToList(c.pos[2])) THEN ModeOf(c)
                                     ELSE e.controlMode[j]]]
      [] c.fn = "stepSimulation" ->
           [e EXCEPT !.t = e.t + 1, !.contactsAt = Some(e.basePos)]
      [] c.fn = "resetBasePositionAndOrientation" ->
           IF c.pos[1] = 0
           THEN [e EXCEPT !.basePos = IF Readable(c.pos[2]) THEN Components(c.pos[2])
                                      ELSE e.basePos,
                          !.baseOrn = IF Readable(c.pos[3]) THEN Components(c.pos[3])
                                      ELSE e.baseOrn]
           ELSE [e EXCEPT !.ground =
                    [pos |-> IF Readable(c.pos[2]) THEN Components(c.pos[2])
                             ELSE e.ground.pos,
                     orn |-> IF Readable(c.pos[3]) THEN Components(c.pos[3])
                             ELSE e.ground.orn]]
      [] c.fn = "setGravity" -> [e EXCEPT !.gravity = c.pos]
      [] c.fn = "removeBody" -> [e EXCEPT !.bodies = e.bodies \ {c.pos[1]}]
      [] c.fn = "saveState" -> [e EXCEPT !.saved = Append(e.saved, World(e))]
      [] c.fn = "saveBullet" ->
           [e EXCEPT !.files = [f \in DOMAIN e.files \cup {c.pos[1]} |-> 
                                   IF f = c.pos[1] THEN World(e) ELSE e.files[f]]]
      [] c.fn = "restoreState" ->
           IF "stateId" \in DOMAIN c.kw
           THEN Restore(e, e.saved[c.kw["stateId"] + 1])
           ELSE Restore(e, e.files[c.kw["fileName"]])
      [] c.fn = "startStateLogging" ->
           [e EXCEPT !.started = e.started + 1, !.loggers = e.loggers \cup {e.started}]
      [] c.fn = "stopStateLogging" ->
           IF c.pos[1] = None THEN e
           ELSE [e EXCEPT !.loggers = e.loggers \ {Get(c.pos[1])}]
      [] c.fn = "resetDebugVisualizerCamera" ->
           [e EXCEPT !.cam = [yaw |-> c.kw["cameraYaw"],
                              pitch |-> c.kw["cameraPitch"],
                              dist |-> c.kw["cameraDistance"],
                              target |-> c.kw["cameraTargetPosition"]]]
      [] OTHER -> e

\* the engine after the calls cs, made in order
RECURSIVE ApplyAll(_, _)
ApplyAll(e, cs) == IF cs = <<>> THEN e
                   ELSE ApplyAll(Apply(e, Head(cs)), Tail(cs))

\* the calls the engine carried out: all of them, but the last one when the
\* engine refused it (an operation ends at the call the engine refuses)
Accepted(cs, e) == IF e = "engine" THEN SubSeq(cs, 1, Len(cs) - 1) ELSE cs

\* the adapter as __init__ leaves it: the engine client of a connection with
\* a window, the id of that client, and the two converters (the quaternion
\* converter by its convention)
Bullet ==
    [sim |-> "GUI", id |-> 0, conv |-> "NumpyListConverter", quat_conv |-> 1]

FinishKeepsResult(name, a, cs, r, e) ==
    /\ pc' = "done"
    /\ op' = name
    /\ args' = a
    /\ calls' = cs
    /\ ret' = r
    /\ err' = e
    /\ pre' = engine
    /\ engine' = ApplyAll(engine, Accepted(cs, e))
    /\ self' = [self EXCEPT !.id = Len(cs)]
    /\ held' = IF name = "save" /\ e = "none"
               THEN [saved |-> TRUE, value |-> Get(r), world |-> World(engine)]
               ELSE held

\* the end of an operation: its record, and the engine after its calls; no
\* operation assigns to a field of the adapter.  The caller holds on to
\* what save has returned (with it, for the record, the world saved).
Finish(name, a, cs, r, e) ==
    /\ pc' = "done"
    /\ op' = name
    /\ args' = a
    /\ calls' = cs
    /\ ret' = r
    /\ err' = e
    /\ pre' = engine
    /\ engine' = ApplyAll(engine, Accepted(cs, e))
    /\ self' = self
    /\ held' = IF name = "save" /\ e = "none"
               THEN [saved |-> TRUE, value |-> Get(r), world |-> World(engine)]
               ELSE held

(***************************************************************************)
(* Structured setters                                                      *)
(***************************************************************************)
set_physics_properties(a) ==
    /\ pc = "idle"
    /\ LET kwargs == BuildKwargs(PhysicsTable, a)
       IN  Finish("set_physics_properties", [opt |-> a],
                  << Call("setPhysicsEngineParameter", <<>>, kwargs) >>,
                  None, "none")

change_constraint(a) ==
    /\ pc = "idle"
    /\ LET kwargs == BuildKwargs(ConstraintTable, a)
       IN  Finish("change_constraint", [opt |-> a],
                  << Call("changeConstraint", <<0>>, kwargs) >>, None, "none")

change_dynamics(a) ==
    /\ pc = "idle"
    /\ LET kwargs == BuildKwargs(DynamicsTable, a)
       IN  Finish("change_dynamics", [opt |-> a],
                  << Call("changeDynamics", <<0, -1>>, kwargs) >>, None, "none")

change_visual_shape(a) ==
    /\ pc = "idle"
    /\ LET kwargs == BuildKwargs(VisualTable, a)
       IN  Finish("change_visual_shape", [opt |-> a],
                  << Call("changeVisualShape", <<0, -1>>, kwargs) >>,
                  None, "none")

\* the binding of a parameter that has a default: cm is None when the caller
\* did not pass the argument
BoundKeepsMode(cm, default) == IF cm = None THEN VELOCITY_CONTROL ELSE Get(cm)

Bound(cm, default) == IF cm = None THEN default ELSE Get(cm)

set_joint_motor_control(joint_id, cm, a) ==
    LET control_mode == Bound(cm, POSITION_CONTROL)
        kwargs == BuildKwargs(MotorTable, a)
    IN  Discard(Sim("setJointMotorControl2", << 0, joint_id >>,
                    With(kwargs, "controlMode", control_mode), Some(None)))

set_joint_motor_control_array(joint_ids, cm, a) ==
    LET control_mode == Bound(cm, POSITION_CONTROL)
        kwargs == BuildKwargs(MotorArrayTable, a)
    IN  Discard(Sim("setJointMotorControlArray", << 0, joint_ids >>,
                    With(kwargs, "controlMode", control_mode), Some(None)))

VelocityTable ==
    << <<"linear_velocity", "linearVelocity">>,
       <<"angular_velocity", "angularVelocity">> >>

reset_base_velocity(a) ==
    /\ pc = "idle"
    /\ LET lin == a["linear_velocity"]
           ang == a["angular_velocity"]
           cs == IF lin # None /\ ang # None
                   THEN << Call("resetBaseVelocity", <<0>>,
                                [k \in {"linearVelocity", "angularVelocity"} |->
                                   IF k = "linearVelocity" THEN Get(lin)
                                   ELSE Get(ang)]) >>
                 ELSE IF lin # None
                   THEN << Call("resetBaseVelocity", <<0>>,
                                [k \in {"linearVelocity"} |-> Get(lin)]) >>
                 ELSE IF ang # None
                   THEN << Call("resetBaseVelocity", <<0>>,
                                [k \in {"angularVelocity"} |-> Get(ang)]) >>
                 ELSE <<>>
       IN  Finish("reset_base_velocity", [opt |-> a], cs, None, "none")

(***************************************************************************)
(* Cameras.  The engine returns a 4x4 matrix as a flat list of 16 numbers; *)
(* the k-th number of the matrix it computes from given inputs is kept as  *)
(* the term "k-th entry of that matrix", so that no two entries are alike. *)
(***************************************************************************)
FlatMatrix(what, inputs) ==
    [k \in 1 .. 16 |-> [matrix |-> what, from |-> inputs, entry |-> k]]

sim_computeViewMatrix(kw) ==
    Sim("computeViewMatrix", <<>>, kw, Some(FlatMatrix("view", kw)))
sim_computeViewMatrixFromYawPitchRoll(kw) ==
    Sim("computeViewMatrixFromYawPitchRoll", <<>>, kw, Some(FlatMatrix("viewYPR", kw)))
sim_computeProjectionMatrix(pos) ==
    Sim("computeProjectionMatrix", pos, NoKw, Some(FlatMatrix("projection", pos)))
sim_computeProjectionMatrixFOV(pos) ==
    Sim("computeProjectionMatrixFOV", pos, NoKw, Some(FlatMatrix("projectionFOV", pos)))
\* width, height, view matrix, projection matrix, camera up, camera forward,
\* horizontal, vertical, yaw, pitch, distance, target
sim_getDebugVisualizerCamera(e) ==
    Sim("getDebugVisualizerCamera", <<>>, NoKw,
        Some(<< 1024, 768, FlatMatrix("camera view", e.cam),
                FlatMatrix("camera projection", e.cam),
                <<0, 0, 1>>, <<1, 0, 0>>, <<0, 1, 0>>, <<0, 0, 1>>,
                e.cam.yaw, e.cam.pitch, e.cam.dist, e.cam.target >>))
sim_resetDebugVisualizerCamera(kw) ==
    Sim("resetDebugVisualizerCamera", <<>>, kw, Some(None))

compute_view_matrix(eye_position, target_position, up_vector) ==
    Map(sim_computeViewMatrix(Kw(<<"eyePosition", "targetPosition", "upVector">>,
                                 <<eye_position, target_position, up_vector>>)),
        LAMBDA view : np_T(np_reshape(np_array(view), 4, 4)))

compute_view_matrix_from_ypr(target_position, distance, yaw, pitch, roll, up_axis_index) ==
    Map(sim_computeViewMatrixFromYawPitchRoll(
            Kw(<<"targetPosition", "distance", "yaw", "pitch", "roll", "upAxisIndex">>,
               <<target_position, distance, np_rad2deg(yaw), np_rad2deg(pitch),
                 np_rad2deg(roll), up_axis_index>>)),
        LAMBDA view : np_T(np_reshape(np_array(view), 4, 4)))

compute_projection_matrixRowWise(left, right, bottom, top, near, far) ==
    Map(sim_computeProjectionMatrix(<<left, right, bottom, top, near, far>>),
        LAMBDA proj : np_reshape(np_array(proj), 4, 4))

compute_projection_matrix(left, right, bottom, top, near, far) ==
    Map(sim_computeProjectionMatrix(<<left, right, bottom, top, near, far>>),
        LAMBDA proj : np_T(np_reshape(np_array(proj), 4, 4)))

compute_projection_matrix_fov(fov, aspect, near, far) ==
    Map(sim_computeProjectionMatrixFOV(<<fov, aspect, near, far>>),
        LAMBDA proj : np_T(np_reshape(np_array(proj), 4, 4)))

get_debug_visualizerInDegrees(e) ==
    Map(sim_getDebugVisualizerCamera(e), LAMBDA r :
        << r[1], r[2], np_T(np_reshape(np_array(r[3]), 4, 4)),
           np_T(np_reshape(np_array(r[4]), 4, 4)), np_array(r[5]),
           np_array(r[6]), np_array(r[7]), np_array(r[8]),
           r[9], r[10], r[11], np_array(r[12]) >>)

get_debug_visualizer(e) ==
    Map(sim_getDebugVisualizerCamera(e), LAMBDA r :
        << r[1], r[2], np_T(np_reshape(np_array(r[3]), 4, 4)),
           np_T(np_reshape(np_array(r[4]), 4, 4)), np_array(r[5]),
           np_array(r[6]), np_array(r[7]), np_array(r[8]),
           np_deg2rad(r[9]), np_deg2rad(r[10]), r[11], np_array(r[12]) >>)

reset_debug_visualizer(distance, yaw, pitch, target_position) ==
    Discard(sim_resetDebugVisualizerCamera(
        Kw(<<"cameraDistance", "cameraYaw", "cameraPitch", "cameraTargetPosition">>,
           <<distance, np_rad2deg(yaw), np_rad2deg(pitch), target_position>>)))

(***************************************************************************)
(* Accessors.  Each is given the engine state it reads.                    *)
(***************************************************************************)
get_base_pose(e) ==
    Map(sim_getBasePositionAndOrientation(e),
        LAMBDA r : << np_array(r[1]), np_array(r[2]) >>)
get_base_position(e) == Map(get_base_pose(e), LAMBDA r : At(r, 0))
get_base_orientation(e) == Map(get_base_pose(e), LAMBDA r : At(r, 1))
get_base_velocity(e) ==
    Map(sim_getBaseVelocity(e), LAMBDA r : << np_array(r[1]), np_array(r[2]) >>)
get_base_linear_velocity(e) == Map(get_base_velocity(e), LAMBDA r : At(r, 0))
get_base_angular_velocity(e) == Map(get_base_velocity(e), LAMBDA r : At(r, 1))

get_link_names(e, link_ids) ==
    IF isinstance(link_ids, "int")
    THEN Map(sim_getJointInfo(e, link_ids.v), LAMBDA info : At(info, 12))
    ELSE Map(ListComp(link_ids.v, LAMBDA link_id :
                 Map(sim_getJointInfo(e, link_id), LAMBDA info : At(info, 12))),
             LAMBDA xs : PyList(xs))

get_link_masses(e, link_ids) ==
    IF isinstance(link_ids, "int")
    THEN Map(sim_getDynamicsInfo(e, link_ids.v), LAMBDA info : At(info, 0))
    ELSE Map(ListComp(link_ids.v, LAMBDA link_id :
                 Map(sim_getDynamicsInfo(e, link_id), LAMBDA info : At(info, 0))),
             LAMBDA xs : np_array(xs))

get_link_world_positions(e, link_ids) ==
    IF isinstance(link_ids, "int")
    THEN IF link_ids.v = -1 THEN get_base_position(e)
         ELSE Map(sim_getLinkState(e, link_ids.v, NoKw),
                  LAMBDA st : np_array(At(st, 0)))
    ELSE Map(ListComp(link_ids.v, LAMBDA link_id :
                 IF link_id = -1 THEN get_base_position(e)
                 ELSE Map(sim_getLinkState(e, link_id, NoKw),
                          LAMBDA st : np_array(At(st, 0)))),
             LAMBDA xs : np_array2([i \in 1 .. Len(xs) |-> xs[i].data]))

get_link_world_orientations(e, link_ids) ==
    IF isinstance(link_ids, "int")
    THEN IF link_ids.v = -1 THEN get_base_orientation(e)
         ELSE Map(sim_getLinkState(e, link_ids.v, NoKw),
                  LAMBDA st : np_array(At(st, 1)))
    ELSE Map(ListComp(link_ids.v, LAMBDA link_id :
                 IF link_id = -1 THEN get_base_orientation(e)
                 ELSE Map(sim_getLinkState(e, link_id, NoKw),
                          LAMBDA st : np_array(At(st, 1)))),
             LAMBDA xs : np_array2([i \in 1 .. Len(xs) |-> xs[i].data]))

get_link_world_linear_velocities(e, link_ids) ==
    IF isinstance(link_ids, "int")
    THEN IF link_ids.v = -1 THEN get_base_linear_velocity(e)
         ELSE Map(sim_getLinkState(e, link_ids.v, [k \in {"computeLinkVelocity"} |-> 1]),
                  LAMBDA st : np_array(At(st, 6)))
    ELSE Map(ListComp(link_ids.v, LAMBDA link_id :
                 IF link_id = -1 THEN get_base_linear_velocity(e)
                 ELSE Map(sim_getLinkState(e, link_id, [k \in {"computeLinkVelocity"} |-> 1]),
                          LAMBDA st : np_array(At(st, 6)))),
             LAMBDA xs : np_array2([i \in 1 .. Len(xs) |-> xs[i].data]))

get_link_world_angular_velocities(e, link_ids) ==
    IF isinstance(link_ids, "int")
    THEN IF link_ids.v = -1 THEN get_base_linear_velocity(e)
         ELSE Map(sim_getLinkState(e, link_ids.v, [k \in {"computeLinkVelocity"} |-> 1]),
                  LAMBDA st : np_array(At(st, 7)))
    ELSE Map(ListComp(link_ids.v, LAMBDA link_id :
                 IF link_id = -1 THEN get_base_linear_velocity(e)
                 ELSE Map(sim_getLinkState(e, link_id, [k \in {"computeLinkVelocity"} |-> 1]),
                          LAMBDA st : np_array(At(st, 7)))),
             LAMBDA xs : np_array2([i \in 1 .. Len(xs) |-> xs[i].data]))

get_link_world_velocities(e, link_ids) ==
    IF isinstance(link_ids, "int")
    THEN IF link_ids.v = -1
         THEN Map(get_base_velocity(e),
                  LAMBDA r : np_concatenate(r[1].data, r[2].data))
         ELSE Map(sim_getLinkState(e, link_ids.v, [k \in {"computeLinkVelocity"} |-> 1]),
                  LAMBDA st : LET v == Slice(st, 6, 8)
                              IN  np_array(v[1] \o v[2]))
    ELSE Map(ListComp(link_ids.v, LAMBDA link_id :
                 IF link_id = -1
                 THEN Map(get_base_velocity(e),
                          LAMBDA r : np_concatenate(r[1].data, r[2].data))
                 ELSE Map(sim_getLinkState(e, link_id, [k \in {"computeLinkVelocity"} |-> 1]),
                          LAMBDA st : LET v == Slice(st, 6, 8)
                                      IN  np_concatenate(v[1], v[2]))),
             LAMBDA xs : np_array2([i \in 1 .. Len(xs) |-> xs[i].data]))

get_qindexKeepsOffset(e, joint_ids) ==
    IF isinstance(joint_ids, "int")
    THEN Map(sim_getJointInfo(e, joint_ids.v), LAMBDA info : At(info, 3) - 7)
    ELSE Map(ListComp(joint_ids.v, LAMBDA joint_id :
                 Map(sim_getJointInfo(e, joint_id), LAMBDA info : At(info, 3))),
             LAMBDA xs : np_array(xs))

get_qindex(e, joint_ids) ==
    IF isinstance(joint_ids, "int")
    THEN Map(sim_getJointInfo(e, joint_ids.v), LAMBDA info : At(info, 3) - 7)
    ELSE Map(ListComp(joint_ids.v, LAMBDA joint_id :
                 Map(sim_getJointInfo(e, joint_id), LAMBDA info : At(info, 3))),
             LAMBDA xs : np_minus(np_array(xs), 7))

get_joint_names(e, joint_ids) ==
    IF isinstance(joint_ids, "int")
    THEN Map(sim_getJointInfo(e, joint_ids.v), LAMBDA info : At(info, 1))
    ELSE Map(ListComp(joint_ids.v, LAMBDA joint_id :
                 Map(sim_getJointInfo(e, joint_id), LAMBDA info : At(info, 1))),
             LAMBDA xs : PyList(xs))

get_joint_dampings(e, joint_ids) ==
    IF isinstance(joint_ids, "int")
    THEN Map(sim_getJointInfo(e, joint_ids.v), LAMBDA info : At(info, 6))
    ELSE Map(ListComp(joint_ids.v, LAMBDA joint_id :
                 Map(sim_getJointInfo(e, joint_id), LAMBDA info : At(info, 6))),
             LAMBDA xs : np_array(xs))

get_joint_frictions(e, joint_ids) ==
    IF isinstance(joint_ids, "int")
    THEN Map(sim_getJointInfo(e, joint_ids.v), LAMBDA info : At(info, 7))
    ELSE Map(ListComp(joint_ids.v, LAMBDA joint_id :
                 Map(sim_getJointInfo(e, joint_id), LAMBDA info : At(info, 7))),
             LAMBDA xs : np_array(xs))

get_joint_limits(e, joint_ids) ==
    IF isinstance(joint_ids, "int")
    THEN Map(sim_getJointInfo(e, joint_ids.v), LAMBDA info : np_array(Slice(info, 8, 10)))
    ELSE Map(ListComp(joint_ids.v, LAMBDA joint_id :
                 Map(sim_getJointInfo(e, joint_id), LAMBDA info : Slice(info, 8, 10))),
             LAMBDA xs : np_array2(xs))

get_joint_max_forces(e, joint_ids) ==
    IF isinstance(joint_ids, "int")
    THEN Map(sim_getJointInfo(e, joint_ids.v), LAMBDA info : At(info, 10))
    ELSE Map(ListComp(joint_ids.v, LAMBDA joint_id :
                 Map(sim_getJointInfo(e, joint_id), LAMBDA info : At(info, 10))),
             LAMBDA xs : np_array(xs))

get_joint_max_velocities(e, joint_ids) ==
    IF isinstance(joint_ids, "int")
    THEN Map(sim_getJointInfo(e, joint_ids.v), LAMBDA info : At(info, 11))
    ELSE Map(ListComp(joint_ids.v, LAMBDA joint_id :
                 Map(sim_getJointInfo(e, joint_id), LAMBDA info : At(info, 11))),
             LAMBDA xs : np_array(xs))

get_joint_axes(e, joint_ids) ==
    IF isinstance(joint_ids, "int")
    THEN Map(sim_getJointInfo(e, joint_ids.v), LAMBDA info : np_array(FromEnd(info, 4)))
    ELSE Map(ListComp(joint_ids.v, LAMBDA joint_id :
                 Map(sim_getJointInfo(e, joint_id), LAMBDA info : FromEnd(info, 4))),
             LAMBDA xs : np_array2(xs))

get_joint_positions(e, joint_ids) ==
    IF isinstance(joint_ids, "int")
    THEN Map(sim_getJointState(e, joint_ids.v), LAMBDA st : At(st, 0))
    ELSE Map(sim_getJointStates(e, joint_ids.v),
             LAMBDA states : LET xs == [i \in 1 .. Len(states) |-> At(states[i], 0)]
                             IN  np_array(xs))

get_joint_velocities(e, joint_ids) ==
    IF isinstance(joint_ids, "int")
    THEN Map(sim_getJointState(e, joint_ids.v), LAMBDA st : At(st, 1))
    ELSE Map(sim_getJointStates(e, joint_ids.v),
             LAMBDA states : LET xs == [i \in 1 .. Len(states) |-> At(states[i], 1)]
                             IN  np_array(xs))

get_joint_torques(e, joint_ids) ==
    IF isinstance(joint_ids, "int")
    THEN Map(sim_getJointState(e, joint_ids.v), LAMBDA st : At(st, 3))
    ELSE Map(sim_getJointStates(e, joint_ids.v),
             LAMBDA states : LET xs == [i \in 1 .. Len(states) |-> At(states[i], 3)]
                             IN  np_array(xs))

get_joint_reaction_forces(e, joint_ids) ==
    IF isinstance(joint_ids, "int")
    THEN Map(sim_getJointState(e, joint_ids.v), LAMBDA st : np_array(At(st, 2)))
    ELSE Map(sim_getJointStates(e, joint_ids.v),
             LAMBDA states : LET xs == [i \in 1 .. Len(states) |-> At(states[i], 2)]
                             IN  np_array2(xs))

get_joint_powers(e, joint_ids) ==
    Then(get_joint_torques(e, joint_ids), LAMBDA torque :
        Map(get_joint_velocities(e, joint_ids), LAMBDA velocity :
            IF isinstance(joint_ids, "int") THEN torque * velocity
            ELSE np_times(torque, velocity)))

num_joints(e) == sim_getNumJoints(e)

get_joint_info(e, joint_id) == sim_getJointInfo(e, joint_id)

\* range(n)
range(n) == [k \in 1 .. n |-> k - 1]

get_actuated_joint_idsUnfiltered(e) ==
    Then(num_joints(e), LAMBDA n :
        Map(ListComp(range(n), LAMBDA joint_id : get_joint_info(e, joint_id)),
            LAMBDA infos : PyList([k \in 1 .. Len(infos) |-> At(infos[k], 0)])))

get_actuated_joint_ids(e) ==
    Then(num_joints(e), LAMBDA n :
        Map(ListComp(range(n), LAMBDA joint_id : get_joint_info(e, joint_id)),
            LAMBDA infos :
                LET kept == SelectSeq(infos, LAMBDA jnt : At(jnt, 2) # JOINT_FIXED)
                IN  PyList([k \in 1 .. Len(kept) |-> At(kept[k], 0)])))

calculate_mass_matrix(e, q) ==
    Map(sim_calculateMassMatrix(e, ToList(q)), LAMBDA H : np_array2(H))

calculate_inverse_dynamics(e, q, dq, des_ddq) ==
    Map(sim_calculateInverseDynamics(e, ToList(q), ToList(dq), ToList(des_ddq)),
        LAMBDA tau : np_array(tau))

\* a NumPy operation that NumPy may refuse
Numpy(x) == Outcome(<<>>, x, IF x = None THEN "numpy" ELSE "none")

\* torques is np.array(torques): the caller's number or array as an array
calculate_forward_dynamics(e, q, dq, torques) ==
    Then(calculate_mass_matrix(e, PyList(ToList(q))), LAMBDA H :
        LET Hinv == np_linalg_inv(H)
        IN  Then(calculate_inverse_dynamics(e, PyList(ToList(q)), dq,
                                            np_zeros(Len(ToList(q)))),
                 LAMBDA C : Then(Numpy(np_subtract(torques, C)),
                                 LAMBDA d : Numpy(np_dot(Hinv, d)))))

get_joint_accelerations(e, joint_ids) ==
    Then(get_joint_torques(e, joint_ids), LAMBDA torques :
      Then(get_actuated_joint_ids(e), LAMBDA joints :
        Then(get_joint_positions(e, joints), LAMBDA q :
          Then(get_joint_velocities(e, joints), LAMBDA dq :
            Then(calculate_forward_dynamics(e, q, dq,
                     IF isinstance(joint_ids, "int") THEN np_array0(torques)
                     ELSE torques),
                 LAMBDA accelerations :
                   Then(get_qindex(e, joint_ids), LAMBDA q_idx :
                     Numpy(np_take(accelerations,
                                   IF isinstance(joint_ids, "int")
                                   THEN PyInt(q_idx) ELSE q_idx))))))))

(***************************************************************************)
(* Logging.  The engine numbers the loggers it starts from 0; it refuses   *)
(* to stop a logger that is not running.  What it does when it is given    *)
(* None for a logger id is not fixed by the adapter: it refuses the call,  *)
(* or (lenient) it stops nothing.  A positional argument that may be None  *)
(* is None or <<value>>.                                                   *)
(***************************************************************************)
LoggingTable ==
    << <<"object_unique_ids", "objectUniqueIds">>,
       <<"max_log_dof", "maxLogDof">>,
       <<"body_unique_id_A", "bodyUniqueIdA">>,
       <<"body_unique_id_B", "bodyUniqueIdB">>,
       <<"link_index_A", "linkIndexA">>,
       <<"link_index_B", "linkIndexB">>,
       <<"device_type_filter", "deviceTypeFilter">>,
       <<"log_flags", "logFlags">> >>

sim_startStateLogging(e, logging_type, filename, kw) ==
    Sim("startStateLogging", << logging_type, filename >>, kw, Some(e.started))
sim_stopStateLogging(e, logger_id, lenient) ==
    Sim("stopStateLogging", << logger_id >>, NoKw,
        IF logger_id = None THEN (IF lenient THEN Some(None) ELSE None)
        ELSE IF Get(logger_id) \in e.loggers THEN Some(None) ELSE None)

start_logging(e, logging_type, filename, a) ==
    Discard(sim_startStateLogging(e, logging_type, filename,
                                  BuildKwargs(LoggingTable, a)))

stop_logging(e, logger_id, lenient) ==
    Discard(sim_stopStateLogging(e, logger_id, lenient))

(***************************************************************************)
(* Contact points and closest points.  The scene is the body, 0, above the *)
(* ground, 1, which is the plane of height 0: the distance between them is *)
(* the height of the base.  The engine computes the contact points in      *)
(* stepSimulation and keeps them until the next step; the closest points   *)
(* it computes from the present poses when it is asked.                    *)
(*                                                                         *)
(* A point is: contact flag, body A, body B, link of A, link of B,         *)
(* position on A, position on B, normal on B, distance, normal force,      *)
(* lateral friction 1 and its direction, lateral friction 2 and its        *)
(* direction.                                                              *)
(***************************************************************************)
Point(body_a, body_b, base, force) ==
    << 0, body_a, body_b, -1, -1, base, << base[1], base[2], 0 >>, << 0, 0, 1 >>,
       base[3], force, 0, << 1, 0, 0 >>, 0, << 0, 1, 0 >> >>

\* whether the query about bodies and links kw concerns the pair (0, 1)
Concerned(kw) ==
    /\ "bodyA" \in DOMAIN kw => kw["bodyA"] \in {0, 1}
    /\ "bodyB" \in DOMAIN kw => kw["bodyB"] \in {0, 1}
    /\ ("bodyA" \in DOMAIN kw /\ "bodyB" \in DOMAIN kw) => kw["bodyA"] # kw["bodyB"]
    /\ "linkIndexA" \in DOMAIN kw => kw["linkIndexA"] = -1
    /\ "linkIndexB" \in DOMAIN kw => kw["linkIndexB"] = -1
BodyA(kw) == IF "bodyA" \in DOMAIN kw THEN kw["bodyA"]
             ELSE IF "bodyB" \in DOMAIN kw THEN 1 - kw["bodyB"] ELSE 0

\* the contact points of the last step: the bodies touched when the base
\* was not above the ground
ContactPointsOf(e, kw) ==
    IF e.contactsAt # None /\ Get(e.contactsAt)[3] <= 0 /\ Concerned(kw)
    THEN << Point(BodyA(kw), 1 - BodyA(kw), Get(e.contactsAt), Code(30, 0, e.t)) >>
    ELSE <<>>
\* the closest points of the present poses, no farther apart than distance
ClosestPointsOf(e, kw, distance) ==
    IF e.basePos[3] <= distance /\ Concerned(kw)
    THEN << Point(BodyA(kw), 1 - BodyA(kw), e.basePos, 0) >>
    ELSE <<>>

\* getContactPoints(bodyA, bodyB, linkIndexA, linkIndexB): the engine reads
\* its positional arguments in this order, and refuses an argument given
\* both by position and by name.  What it does with a distance in the place
\* of a link index is not fixed by the adapter: it refuses it, or (lenient)
\* reads it as the link index.
ContactParams == << "bodyA", "bodyB", "linkIndexA", "linkIndexB" >>
sim_getContactPoints(e, pos, kw, lenient) ==
    LET named == {ContactParams[k] : k \in 1 .. Len(pos)}
        all == [n \in named \cup DOMAIN kw |->
                   IF n \in named
                   THEN pos[CHOOSE k \in 1 .. Len(pos) : ContactParams[k] = n]
                   ELSE kw[n]]
    IN  Sim("getContactPoints", pos, kw,
            IF named \cap DOMAIN kw # {} THEN None
            ELSE IF Len(pos) >= 3 /\ ~lenient THEN None
            ELSE Some(ContactPointsOf(e, all)))

\* [[r[0], ..., np.array(r[5]), np.array(r[6]), np.array(r[7]), ...,
\*   np.array(r[11]), r[12], np.array(r[13])] for r in results]
PointsAsArrays(results) ==
    [i \in 1 .. Len(results) |->
        [k \in 1 .. 14 |-> IF k \in {6, 7, 8, 12, 14} THEN np_array(results[i][k])
                           ELSE results[i][k]]]

get_contact_points(e, body_a, body_b, link_id_a, link_id_b) ==
    LET given == [n \in {"bodyA", "bodyB", "linkIndexA", "linkIndexB"} |->
                     CASE n = "bodyA" -> body_a # None
                       [] n = "bodyB" -> body_b # None
                       [] n = "linkIndexA" -> body_a # None /\ link_id_a # None
                       [] n = "linkIndexB" -> body_b # None /\ link_id_b # None]
        kwargs == [n \in {n \in DOMAIN given : given[n]} |->
                     CASE n = "bodyA" -> Get(body_a)
                       [] n = "bodyB" -> Get(body_b)
                       [] n = "linkIndexA" -> Get(link_id_a)
                       [] n = "linkIndexB" -> Get(link_id_b)]
    IN  Map(sim_getContactPoints(e, <<>>, kwargs, FALSE), PointsAsArrays)

get_closest_points(e, body_a, body_b, distance, link_id_a, link_id_b, lenient) ==
    LET kwargs == [n \in {n \in {"linkIndexA", "linkIndexB"} :
                            IF n = "linkIndexA" THEN link_id_a # None
                            ELSE link_id_b # None} |->
                     IF n = "linkIndexA" THEN Get(link_id_a) ELSE Get(link_id_b)]
    IN  Map(sim_getContactPoints(e, << body_a, body_b, distance >>, kwargs, lenient),
            PointsAsArrays)

(***************************************************************************)
(* Saving and restoring.  saveState keeps the world in memory and answers  *)
(* the id of the state kept, counted from 0; saveBullet writes the world   *)
(* to a file and answers nothing (None); restoreState restores the state   *)
(* of an id or of a file, and is refused when there is none.  Whether a    *)
(* state is restored into a world whose bodies are not those of the state  *)
(* is not fixed by the adapter: the engine refuses, or (lenient) restores  *)
(* it with its bodies.  A value whose type load examines carries its type. *)
(***************************************************************************)
PyNone == [type |-> "NoneType"]
PyStr(s) == [type |-> "str", v |-> s]

sim_saveState(e) == Sim("saveState", <<>>, NoKw, Some(PyInt(Len(e.saved))))
sim_saveBullet(e, filename) == Sim("saveBullet", << filename >>, NoKw, Some(PyNone))
sim_restoreState(e, kw, lenient) ==
    LET known == IF "stateId" \in DOMAIN kw THEN kw["stateId"] \in 0 .. Len(e.saved) - 1
                 ELSE kw["fileName"] \in DOMAIN e.files
        w == IF "stateId" \in DOMAIN kw THEN e.saved[kw["stateId"] + 1]
             ELSE e.files[kw["fileName"]]
    IN  Sim("restoreState", <<>>, kw,
            IF known /\ (lenient \/ w.bodies = e.bodies) THEN Some(None) ELSE None)

\* filename is None or <<name>>
save(e, filename) ==
    IF filename = None THEN sim_saveState(e)
    ELSE sim_saveBullet(e, Get(filename))

load(e, state, lenient) ==
    IF isinstance(state, "int")
      THEN Discard(sim_restoreState(e, [k \in {"stateId"} |-> state.v], lenient))
    ELSE IF isinstance(state, "str")
      THEN Discard(sim_restoreState(e, [k \in {"fileName"} |-> state.v], lenient))
    ELSE Outcome(<<>>, None, "none")

remove_body(body_id) == Discard(Sim("removeBody", << body_id >>, NoKw, Some(None)))

(***************************************************************************)
(* Gravity, rays, Jacobians                                                *)
(***************************************************************************)
\* x[k] of a tuple, a list or a 1-d array
getitem(x, k) == Components(x)[k + 1]

set_gravityReversed(gravity) ==
    Discard(Sim("setGravity",
                << getitem(gravity, 2), getitem(gravity, 1), getitem(gravity, 0) >>,
                NoKw, Some(None)))

set_gravity(gravity) ==
    Discard(Sim("setGravity",
                << getitem(gravity, 0), getitem(gravity, 1), getitem(gravity, 2) >>,
                NoKw, Some(None)))

\* rayTest answers with the object and the link hit, the fraction of the
\* ray up to the hit, and the position and the normal of the hit: here the
\* ray reaches its end
sim_rayTest(from_position, to_position) ==
    Sim("rayTest", << from_position, to_position >>, NoKw,
        Some(<< 0, -1, 1, Components(to_position), << 0, 0, 1 >> >>))

ray_test(from_position, to_position) ==
    LET from_position1 == IF isinstance(from_position, "ndarray")
                          THEN PyList(ToList(from_position)) ELSE from_position
        to_position1 == IF isinstance(to_position, "ndarray")
                        THEN PyList(ToList(to_position)) ELSE to_position
    IN  Map(sim_rayTest(from_position1, to_position1),
            LAMBDA r : << r[1], r[2], r[3], np_array(r[4]), np_array(r[5]) >>)

\* calculateJacobian answers with the linear and the angular Jacobian, three
\* rows of one entry per degree of freedom each; it refuses a link the body
\* does not have and vectors that do not have one entry per degree of
\* freedom
JacobianOf(e, link_id, local_position) ==
    LET dof == Cardinality(Actuated(e))
    IN  << [r \in 1 .. 3 |-> [c \in 1 .. dof |-> Code(70, link_id, r) + local_position[r]]],
           [r \in 1 .. 3 |-> [c \in 1 .. dof |-> Code(71, link_id, r)]] >>
sim_calculateJacobian(e, link_id, kw) ==
    Sim("calculateJacobian", << 0, link_id >>, kw,
        IF /\ link_id \in Joints
           /\ \A k \in {"objPositions", "objVelocities", "objAccelerations"} :
                  Len(Components(kw[k])) = Cardinality(Actuated(e))
        THEN Some(JacobianOf(e, link_id, Components(kw["localPosition"])))
        ELSE None)

\* np.vstack((a, b)) of two matrices given by their rows
np_vstack(a, b) == np_array2(a \o b)

calculate_jacobian(e, link_id, local_position, q, dq, des_ddq) ==
    LET tolist(x) == IF isinstance(x, "ndarray") THEN PyList(ToList(x)) ELSE x
    IN  Map(sim_calculateJacobian(e, link_id,
                Kw(<< "localPosition", "objPositions", "objVelocities",
                      "objAccelerations" >>,
                   << tolist(local_position), tolist(q), tolist(dq), tolist(des_ddq) >>)),
            LAMBDA r : np_vstack(r[1], r[2]))

num_links(e) == num_joints(e)

\* np.sum(pos.T * mass, axis=1) / np.sum(mass) of the positions pos (one row
\* per link) and the masses: each component is an exact quotient
\* << numerator, denominator >>
WeightedMean(pos, mass) ==
    LET n == pos.shape[1]
        total == SumSeq(mass.data)
    IN  [type |-> "ndarray", shape |-> << pos.shape[2] >>,
         data |-> [k \in 1 .. pos.shape[2] |->
                     << SumSeq([i \in 1 .. n |-> Rows(pos)[i][k] * mass.data[i]]),
                        total >>]]

get_center_of_massGoesOn(e, link_ids) ==
    LET ids == IF link_ids = None THEN PyList(range(MaxJoint + 1)) ELSE Get(link_ids)
        pos == get_link_world_positions(e, ids)
        mass == get_link_masses(e, ids)
    IN  Outcome(pos.calls \o mass.calls, None,
                IF pos.err # "none" THEN pos.err ELSE mass.err)

get_center_of_mass(e, link_ids) ==
    Then(IF link_ids = None THEN Map(num_links(e), LAMBDA n : PyList(range(n)))
         ELSE Pure(Get(link_ids)),
         LAMBDA link_ids1 :
           Then(get_link_world_positions(e, link_ids1), LAMBDA pos :
             Map(get_link_masses(e, link_ids1), LAMBDA mass :
               WeightedMean(pos, mass))))

(***************************************************************************)
(* Bodies, poses, constraints, inverse kinematics.  What the engine does   *)
(* with an argument it cannot read is not fixed by the adapter: it refuses *)
(* the call, or (lenient) it carries the call out without that argument.   *)
(***************************************************************************)
\* self.quat_conv.convertFrom(q) of QuaternionListConverter(convention=1):
\* the components of the quaternion as a list in the order x, y, z, w
quat_conv_convertFrom(q) == PyList(<< q.x, q.y, q.z, q.w >>)

\* what the engine answers to a call that passes the vectors vs
Answer(vs, lenient, ans) ==
    IF lenient \/ \A i \in 1 .. Len(vs) : vs[i] # None /\ Readable(Get(vs[i]))
    THEN Some(ans) ELSE None

load_urdf(filename, position, orientation, use_fixed_base, lenient) ==
    LET position1 == IF position # None /\ isinstance(Get(position), "ndarray")
                     THEN Some(PyList(ToList(Get(position)))) ELSE position
        orientation1 ==
            IF orientation # None
            THEN IF isinstance(Get(orientation), "ndarray")
                   THEN Some(PyList(ToList(Get(orientation))))
                 ELSE IF isinstance(Get(orientation), "quaternion")
                   THEN Some(quat_conv_convertFrom(Get(orientation)))
                 ELSE orientation
            ELSE orientation
    IN  Sim("loadURDF", << filename, position1, orientation1, 0, use_fixed_base, 0, 1 >>,
            NoKw, Answer(<< position1, orientation1 >>, lenient, 1))

\* the engine creates a mesh shape from a file it can load
Loadable(filename) == filename = "mesh.obj"

load_meshBodyOnly(filename, position, orientation, mass, scale, color, flags, lenient) ==
    Sim("createMultiBody", <<>>,
        Kw(<< "baseMass", "baseCollisionShapeIndex", "baseVisualShapeIndex",
              "basePosition", "baseOrientation" >>,
           << mass, -1, -1, position, orientation >>),
        Answer(<< Some(position), Some(orientation) >>, lenient, 1))

load_mesh(filename, position, orientation, mass, scale, color, flags, lenient) ==
    LET kwargs == IF flags # None THEN [k \in {"flags"} |-> Get(flags)] ELSE NoKw
        kwargs2 == IF color # None THEN With(kwargs, "rgbaColor", Get(color)) ELSE kwargs
    IN  Then(Sim("createCollisionShape", << GEOM_MESH >>,
                 With(With(kwargs, "fileName", filename), "meshScale", scale),
                 IF Loadable(filename) THEN Some(0) ELSE None),
             LAMBDA collision_shape :
        Then(Sim("createVisualShape", << GEOM_MESH >>,
                 With(With(kwargs2, "fileName", filename), "meshScale", scale),
                 IF Loadable(filename) THEN Some(0) ELSE None),
             LAMBDA visual_shape :
               Sim("createMultiBody", <<>>,
                   Kw(<< "baseMass", "baseCollisionShapeIndex", "baseVisualShapeIndex",
                         "basePosition", "baseOrientation" >>,
                      << mass, collision_shape, visual_shape, position, orientation >>),
                   Answer(<< Some(position), Some(orientation) >>, lenient, 1))))

create_body(visual_shape_id, collision_shape_id, mass, position, orientation, lenient) ==
    LET position1 == IF isinstance(position, "ndarray") THEN PyList(ToList(position))
                     ELSE position
        orientation1 == IF isinstance(orientation, "ndarray")
                          THEN PyList(ToList(orientation))
                        ELSE IF isinstance(orientation, "quaternion")
                          THEN quat_conv_convertFrom(orientation)
                        ELSE orientation
    IN  Sim("createMultiBody", <<>>,
            Kw(<< "baseMass", "baseCollisionShapeIndex", "baseVisualShapeIndex",
                  "basePosition", "baseOrientation" >>,
               << mass, collision_shape_id, visual_shape_id, position1, orientation1 >>),
            Answer(<< Some(position1), Some(orientation1) >>, lenient, 1))

create_constraint(joint_type, joint_axis, parent_frame_position, child_frame_position, parent_frame_orientation, child_frame_orientation, lenient) ==
    Sim("createConstraint",
        << 0, -1, 0, 0, joint_type, joint_axis, parent_frame_position,
           child_frame_position, parent_frame_orientation, child_frame_orientation >>,
        NoKw,
        Answer(<< Some(joint_axis), Some(parent_frame_position),
                  Some(child_frame_position), Some(parent_frame_orientation),
                  Some(child_frame_orientation) >>, lenient, 1))

reset_base_pose(position, orientation, lenient) ==
    Discard(Sim("resetBasePositionAndOrientation", << 0, position, orientation >>, NoKw,
                Answer(<< Some(position), Some(orientation) >>, lenient, None)))

reset_base_positionUpright(e, position, lenient) ==
    Then(get_base_orientation(e), LAMBDA orientation :
        reset_base_pose(position, np_array(<<0, 0, 0, 1>>), lenient))

reset_base_position(e, position, lenient) ==
    Then(get_base_orientation(e), LAMBDA orientation :
        reset_base_pose(position, orientation, lenient))

reset_base_orientation(e, orientation, lenient) ==
    Then(get_base_position(e), LAMBDA position :
        reset_base_pose(position, orientation, lenient))

\* what the engine returns for an inverse kinematics query: one position
\* per degree of freedom
InverseKinematicsOf(e, link_id) ==
    [k \in 1 .. Cardinality(Actuated(e)) |-> Code(60, link_id, k)]

calculate_inverse_kinematics(e, link_id, position, a, lenient) ==
    LET k1 == IF a.orientation # None
              THEN With(NoKw, "targetOrientation",
                        IF isinstance(Get(a.orientation), "ndarray")
                        THEN PyList(ToList(Get(a.orientation)))
                        ELSE Get(a.orientation))
              ELSE NoKw
        k2 == IF a.lower_limits # None /\ a.upper_limits # None
                 /\ a.joint_ranges # None /\ a.rest_poses # None
              THEN With(With(With(With(k1, "lowerLimits", Get(a.lower_limits)),
                                  "upperLimits", Get(a.upper_limits)),
                             "jointRanges", Get(a.joint_ranges)),
                        "restPoses", Get(a.rest_poses))
              ELSE k1
        k3 == IF a.q_curr # None
              THEN With(k2, "currentPosition",
                        IF isinstance(Get(a.q_curr), "ndarray")
                        THEN PyList(ToList(Get(a.q_curr))) ELSE Get(a.q_curr))
              ELSE k2
        k4 == IF a.joint_dampings # None
              THEN With(k3, "jointDamping",
                        IF isinstance(Get(a.joint_dampings), "ndarray")
                        THEN PyList(ToList(Get(a.joint_dampings)))
                        ELSE Get(a.joint_dampings))
              ELSE k3
        k5 == IF a.solver # None THEN With(k4, "solver", Get(a.solver)) ELSE k4
        k6 == IF a.max_iters # None THEN With(k5, "maxNumIterations", Get(a.max_iters))
              ELSE k5
        kwargs == IF a.threshold # None
                  THEN With(k6, "residualThreshold", Get(a.threshold)) ELSE k6
    IN  Map(Sim("calculateInverseKinematics", << 0, link_id, position >>, kwargs,
                IF link_id \in Joints
                THEN Answer(<< Some(position) >>
                            \o IF a.orientation # None
                               THEN << Some(kwargs["targetOrientation"]) >> ELSE <<>>,
                            lenient, InverseKinematicsOf(e, link_id))
                ELSE None),
            LAMBDA r : np_array(r))

(***************************************************************************)
(* Joint commands.  A command is flawed when it carries None for a keyword *)
(* ("None") or a single joint id where the engine expects a list ("int");  *)
(* the flaws the engine tolerates are not fixed by the adapter: the engine *)
(* refuses a command with a flaw it does not tolerate.                     *)
(***************************************************************************)
Command(fn, pos, kw, flaws, tolerated) ==
    Sim(fn, pos, kw, IF flaws \subseteq tolerated THEN Some(None) ELSE None)

\* raise kind(...)
Raise(kind) == Outcome(<<>>, None, kind)

set_joint_positions(joint_ids, positions, velocities, kps, kds, forces) ==
    IF isinstance(joint_ids, "int")
    THEN set_joint_motor_control(joint_ids, Some(POSITION_CONTROL),
             [p \in Params(MotorTable) |->
                 CASE p = "position" -> Some(positions)
                   [] p = "velocity" -> velocities
                   [] p = "force" -> forces
                   [] p = "kp" -> kps
                   [] p = "kd" -> kds
                   [] OTHER -> None])
    ELSE set_joint_motor_control_array(joint_ids, Some(POSITION_CONTROL),
             [p \in Params(MotorArrayTable) |->
                 CASE p = "positions" -> Some(positions)
                   [] p = "velocities" -> velocities
                   [] p = "forces" -> forces
                   [] p = "kps" -> kps
                   [] p = "kds" -> kds])

set_joint_velocities(joint_ids, velocities, max_force, tolerated) ==
    LET int == IF isinstance(joint_ids, "int") THEN {"int"} ELSE {}
        none == IF max_force = None THEN {"None"} ELSE {}
        force == IF max_force = None THEN None ELSE Get(max_force)
        single ==
            IF isinstance(joint_ids, "int")
            THEN Then(IF max_force = None
                      THEN Command("setJointMotorControl2",
                                   << 0, joint_ids, VELOCITY_CONTROL >>,
                                   [k \in {"targetVelocity"} |-> velocities],
                                   {}, tolerated)
                      ELSE Pure(None),
                      LAMBDA r :
                        Command("setJointMotorControl2",
                                << 0, joint_ids, VELOCITY_CONTROL >>,
                                Kw(<< "targetVelocity", "force" >>, << velocities, force >>),
                                none, tolerated))
            ELSE Pure(None)
    IN  Discard(
        Then(single, LAMBDA r :
        Then(IF max_force = None
             THEN Command("setJointMotorControlArray",
                          << 0, joint_ids, VELOCITY_CONTROL >>,
                          [k \in {"targetVelocities"} |-> velocities], int, tolerated)
             ELSE Pure(None),
             LAMBDA r2 :
               Command("setJointMotorControlArray", << 0, joint_ids, VELOCITY_CONTROL >>,
                       Kw(<< "targetVelocities", "forces" >>, << velocities, force >>),
                       int \cup none, tolerated))))

set_joint_torques(joint_ids, torques, tolerated) ==
    Discard(
    Then(IF isinstance(joint_ids, "int")
         THEN Command("setJointMotorControl2", << 0, joint_ids, TORQUE_CONTROL >>,
                      [k \in {"force"} |-> torques], {}, tolerated)
         ELSE Pure(None),
         LAMBDA r :
           Command("setJointMotorControlArray", << 0, joint_ids, TORQUE_CONTROL >>,
                   [k \in {"forces"} |-> torques],
                   IF isinstance(joint_ids, "int") THEN {"int"} ELSE {}, tolerated)))

\* len(x) of a list or of a 1-d array
len(x) == Len(ToList(x))

\* self.get_qindex(joint_ids): get_qindex(self, body_id, joint_ids) called
\* without its second argument
get_qindexWithoutBody == Raise("TypeError")

set_joint_accelerations(e, joint_ids, accelerations, q, dq, tolerated) ==
    LET joint_ids1 == IF isinstance(joint_ids, "int") THEN PyList(<< joint_ids.v >>)
                      ELSE joint_ids
        accelerations1 == IF isinstance(accelerations, "int")
                          THEN PyList(<< accelerations.v >>) ELSE accelerations
        joints == IF q = None \/ dq = None THEN get_actuated_joint_ids(e) ELSE Pure(None)
    IN  IF len(accelerations1) # len(joint_ids1) THEN Raise("ValueError")
        ELSE
        Then(joints, LAMBDA js :
        Then(IF q = None THEN get_joint_positions(e, js) ELSE Pure(Get(q)), LAMBDA q1 :
        Then(IF dq = None THEN get_joint_velocities(e, js) ELSE Pure(Get(dq)), LAMBDA dq1 :
        LET num_actuated_joints == len(q1)
        IN  Then(IF len(accelerations1) # num_actuated_joints
                 THEN get_qindexWithoutBody ELSE Pure(accelerations1),
                 LAMBDA accelerations2 :
            Then(calculate_inverse_dynamics(e, q1, dq1, accelerations2), LAMBDA torques :
            Then(IF len(torques) # len(joint_ids1)
                 THEN get_qindexWithoutBody ELSE Pure(torques),
                 LAMBDA torques1 :
                   set_joint_torques(joint_ids1, torques1, tolerated)))))))

(***************************************************************************)
(* Shapes                                                                  *)
(***************************************************************************)
VisualShapeTable ==
    << <<"rgba_color", "rgbaColor">>,
       <<"specular_color", "specularColor">>,
       <<"visual_frame_position", "visualFramePosition">>,
       <<"visual_frame_orientation", "visualFrameOrientation">> >>

MeshTable ==
    << <<"vertices", "vertices">>,
       <<"indices", "indices">>,
       <<"uvs", "uvs">>,
       <<"normals", "normals">> >>

CollisionShapeTable ==
    << <<"collision_frame_position", "collisionFramePosition">>,
       <<"collision_frame_orientation", "collisionFrameOrientation">> >>

\* the engine answers a creation with the identifier of the shape
sim_createVisualShape(shape_type, kw) ==
    Sim("createVisualShape", << shape_type >>, kw, Some(0))
sim_createCollisionShape(shape_type, kw) ==
    Sim("createCollisionShape", << shape_type >>, kw, Some(0))

create_visual_shapeUnchecked(shape_type, g, filename, a) ==
    sim_createVisualShape(shape_type, BuildKwargs(VisualShapeTable, a))

\* g holds the geometry arguments: radius, half_extents, length, mesh_scale,
\* plane_normal, flags
create_visual_shape(shape_type, g, filename, a) ==
    LET kwargs == BuildKwargs(VisualShapeTable, a)
    IN  IF shape_type = GEOM_SPHERE
          THEN sim_createVisualShape(shape_type, With(kwargs, "radius", g.radius))
        ELSE IF shape_type = GEOM_BOX
          THEN sim_createVisualShape(shape_type,
                                     With(kwargs, "halfExtents", g.half_extents))
        ELSE IF shape_type = GEOM_CAPSULE \/ shape_type = GEOM_CYLINDER
          THEN sim_createVisualShape(shape_type,
                   With(With(kwargs, "radius", g.radius), "length", g.length))
        ELSE IF shape_type = GEOM_PLANE
          THEN sim_createVisualShape(shape_type,
                                     With(kwargs, "planeNormal", g.plane_normal))
        ELSE IF shape_type = GEOM_MESH
          THEN sim_createVisualShape(shape_type,
                   IF filename # None THEN With(kwargs, "fileName", Get(filename))
                   ELSE BuildKwargs(MeshTable, a) @@ kwargs)
        ELSE Raise("ValueError")

create_collision_shapeUnchecked(shape_type, g, filename, a) ==
    sim_createCollisionShape(shape_type, BuildKwargs(CollisionShapeTable, a))

\* g holds the geometry arguments: radius, half_extents, height, mesh_scale,
\* plane_normal, flags
create_collision_shape(shape_type, g, filename, a) ==
    LET kwargs == BuildKwargs(CollisionShapeTable, a)
    IN  IF shape_type = GEOM_SPHERE
          THEN sim_createCollisionShape(shape_type, With(kwargs, "radius", g.radius))
        ELSE IF shape_type = GEOM_BOX
          THEN sim_createCollisionShape(shape_type,
                                        With(kwargs, "halfExtents", g.half_extents))
        ELSE IF shape_type = GEOM_CAPSULE \/ shape_type = GEOM_CYLINDER
          THEN sim_createCollisionShape(shape_type,
                   With(With(kwargs, "radius", g.radius), "height", g.height))
        ELSE IF shape_type = GEOM_PLANE
          THEN sim_createCollisionShape(shape_type,
                                        With(kwargs, "planeNormal", g.plane_normal))
        ELSE IF shape_type = GEOM_MESH
          THEN sim_createCollisionShape(shape_type,
                   With(kwargs, "fileName",
                        IF filename = None THEN None ELSE Get(filename)))
        ELSE Raise("ValueError")

\* a caller runs the operation name with the arguments a; o is its course
Do(name, a, o) ==
    /\ pc = "idle"
    /\ Finish(name, a, o.calls, o.ret, o.err)

\* the course of a batch accessor, by its name
Accessor(name, e, ids) ==
    CASE name = "get_link_names" -> get_link_names(e, ids)
      [] name = "get_link_masses" -> get_link_masses(e, ids)
      [] name = "get_link_world_positions" -> get_link_world_positions(e, ids)
      [] name = "get_link_world_orientations" -> get_link_world_orientations(e, ids)
      [] name = "get_link_world_linear_velocities" -> get_link_world_linear_velocities(e, ids)
      [] name = "get_link_world_angular_velocities" -> get_link_world_angular_velocities(e, ids)
      [] name = "get_link_world_velocities" -> get_link_world_velocities(e, ids)
      [] name = "get_qindex" -> get_qindex(e, ids)
      [] name = "get_joint_names" -> get_joint_names(e, ids)
      [] name = "get_joint_dampings" -> get_joint_dampings(e, ids)
      [] name = "get_joint_frictions" -> get_joint_frictions(e, ids)
      [] name = "get_joint_limits" -> get_joint_limits(e, ids)
      [] name = "get_joint_max_forces" -> get_joint_max_forces(e, ids)
      [] name = "get_joint_max_velocities" -> get_joint_max_velocities(e, ids)
      [] name = "get_joint_axes" -> get_joint_axes(e, ids)
      [] name = "get_joint_positions" -> get_joint_positions(e, ids)
      [] name = "get_joint_velocities" -> get_joint_velocities(e, ids)
      [] name = "get_joint_torques" -> get_joint_torques(e, ids)
      [] name = "get_joint_reaction_forces" -> get_joint_reaction_forces(e, ids)
      [] name = "get_joint_powers" -> get_joint_powers(e, ids)
      [] name = "get_joint_accelerations" -> get_joint_accelerations(e, ids)

BatchAccessors ==
    {"get_link_names",
     "get_link_masses",
     "get_link_world_positions",
     "get_link_world_orientations",
     "get_link_world_linear_velocities",
     "get_link_world_angular_velocities",
     "get_link_world_velocities",
     "get_qindex",
     "get_joint_names",
     "get_joint_dampings",
     "get_joint_frictions",
     "get_joint_limits",
     "get_joint_max_forces",
     "get_joint_max_velocities",
     "get_joint_axes",
     "get_joint_positions",
     "get_joint_velocities",
     "get_joint_torques",
     "get_joint_reaction_forces",
     "get_joint_powers",
     "get_joint_accelerations"}

\* a caller calls a batch accessor with one identifier or a list of them
CallAccessor(name, ids) ==
    /\ pc = "idle"
    /\ LET o == Accessor(name, engine, ids)
       IN  Finish(name, [ids |-> ids], o.calls, o.ret, o.err)

step ==
    /\ pc = "idle"
    /\ engine.t < MaxTime
    /\ Finish("step", None, << Call("stepSimulation", <<>>, NoKw) >>, None, "none")

(***************************************************************************)
(* The operation returns to the caller, which may call the next one.       *)
(***************************************************************************)
Return ==
    /\ pc = "done"
    /\ pc' = "idle"
    /\ op' = "none"
    /\ args' = None
    /\ calls' = <<>>
    /\ ret' = None
    /\ err' = "none"
    /\ pre' = engine
    /\ UNCHANGED << engine, self, held >>

(***************************************************************************)
(* Inputs                                                                  *)
(***************************************************************************)
PhysicsInputs == OptArgs(Params(PhysicsTable))
ConstraintInputs == OptArgs(Params(ConstraintTable))
DynamicsInputs == OptArgs(Params(DynamicsTable))
VisualInputs == OptArgs(Params(VisualTable))
MotorInputs == OptArgs(Params(MotorTable))
MotorArrayInputs == OptArgs(Params(MotorArrayTable))
VelocityInputs == OptArgs(Params(VelocityTable))
\* a control_mode argument: not passed, or passed
ModeInputs == {None, Some(POSITION_CONTROL), Some(TORQUE_CONTROL)}
\* the lists of joint ids a caller passes to a command: one id, or two
JointLists == {<<j>> : j \in Joints}
              \cup {js \in Joints \X Joints : js[1] # js[2]}

\* the identifiers a caller passes: the base, the joints (= links) of the body
\* and one index the body does not have
Ids == -1 .. MaxJoint + 1
RECURSIVE ListsUpTo(_, _)
ListsUpTo(S, n) == IF n = 0 THEN {<<>>}
                   ELSE LET prev == ListsUpTo(S, n - 1)
                        IN  prev \cup {Append(l, x) : l \in prev, x \in S}
IntInputs == {PyInt(i) : i \in Ids}
\* the lists of identifiers a caller passes: up to MaxList of them, and one
\* list that asks for more joints than the body has
ListInputs == {PyList(l) : l \in ListsUpTo(Ids, MaxList) \ {<<>>}}
              \cup {PyList([k \in 1 .. MaxJoint + 2 |-> 0])}

\* the angles a caller passes, in radians
Angles == {Real(45 * m, 1) : m \in -MaxAngle .. MaxAngle}
Positions == {<<0, 0, 0>>, <<0, 0, 1>>}

\* orientations, by their components x, y, z, w
Rotations == {<<0, 0, 0, 1>>, <<1, 0, 0, 0>>, <<2, 3, 4, 1>>}
\* the forms in which a caller passes an orientation: a tuple and an array
\* (x, y, z, w), and a quaternion object (w, x, y, z)
SequenceOrientations == {PyTuple(r) : r \in Rotations} \cup {np_array(r) : r \in Rotations}
QuaternionOrientations == {Quaternion(r[4], r[1], r[2], r[3]) : r \in Rotations}
OrientationInputs == SequenceOrientations \cup QuaternionOrientations
\* the forms in which a caller passes a position
PositionInputs == {PyTuple(<<0, 0, 1>>), np_array(<<1, 2, 3>>)}
\* the optional arguments of calculate_inverse_kinematics
NoIKOptions ==
    [p \in {"orientation", "lower_limits", "upper_limits", "joint_ranges", "rest_poses",
            "joint_dampings", "solver", "q_curr", "max_iters", "threshold"} |-> None]
IKInputs ==
    {NoIKOptions}
    \cup {[NoIKOptions EXCEPT !["orientation"] = Some(o)] : o \in OrientationInputs}
    \cup {[NoIKOptions EXCEPT !["lower_limits"] = Some(PyList(<<-1, -1>>)),
                              !["upper_limits"] = Some(PyList(<<1, 1>>)),
                              !["joint_ranges"] = Some(PyList(<<2, 2>>)),
                              !["rest_poses"] = r] :
              r \in {None, Some(PyList(<<0, 0>>))}}
    \cup {[NoIKOptions EXCEPT !["q_curr"] = Some(q), !["joint_dampings"] = Some(q),
                              !["solver"] = v, !["max_iters"] = v, !["threshold"] = v] :
              q \in {PyList(<<0, 0>>), np_array(<<0, 0>>)}, v \in {None, Some(0)}}

\* the geometry kinds a caller passes: the six the engine knows and, on both
\* sides, one it does not
ShapeTypes == GEOM_SPHERE - 1 .. GEOM_CAPSULE + 1
VisualShapeInputs == OptArgs(Params(VisualShapeTable) \cup Params(MeshTable))
CollisionShapeInputs == OptArgs(Params(CollisionShapeTable))
Filenames == {None, Some("mesh.obj")}
\* the flaws of a command an engine tolerates
Tolerances == SUBSET {"None", "int"}
\* one value per joint of a command: a number for a single joint id, a list
\* for a list of joint ids
ValuesFor(joint_ids) ==
    IF isinstance(joint_ids, "int") THEN 1
    ELSE PyList([k \in 1 .. Len(joint_ids.v) |-> k])
\* the accelerations a caller passes: a number (n = 0), or n of them in a
\* list or an array
AccelerationsOf(n, array) ==
    IF n = 0 THEN PyInt(1)
    ELSE IF array THEN np_array([k \in 1 .. n |-> k])
    ELSE PyList([k \in 1 .. n |-> k])

Init ==
    /\ pc = "idle"
    /\ op = "none"
    /\ args = None
    /\ calls = <<>>
    /\ ret = None
    /\ err = "none"
    /\ engine = InitEngine
    /\ self = Bullet
    /\ pre = engine
    /\ held = [saved |-> FALSE]

Setters ==
    \/ \E a \in PhysicsInputs : set_physics_properties(a)
    \/ \E a \in ConstraintInputs : change_constraint(a)
    \/ \E a \in DynamicsInputs : change_dynamics(a)
    \/ \E a \in VisualInputs : change_visual_shape(a)
    \/ \E j \in Joints, cm \in ModeInputs, a \in MotorInputs :
          Do("set_joint_motor_control",
             [joint_ids |-> <<j>>, control_mode |-> cm, opt |-> a],
             set_joint_motor_control(PyInt(j), cm, a))
    \/ \E js \in JointLists, cm \in ModeInputs, a \in MotorArrayInputs :
          Do("set_joint_motor_control_array",
             [joint_ids |-> js, control_mode |-> cm, opt |-> a],
             set_joint_motor_control_array(PyList(js), cm, a))
    \/ \E a \in VelocityInputs : reset_base_velocity(a)

NextSetters == Setters \/ Return

SpecSetters == Init /\ [][NextSetters]_vars

\* the mesh files a caller names: one the engine can load, one it cannot
MeshFiles == {"mesh.obj", "missing.obj"}

Bodies ==
    \/ \E position \in {None} \cup {Some(p) : p \in PositionInputs},
          orientation \in {None} \cup {Some(o) : o \in OrientationInputs},
          use_fixed_base \in {0, 1}, lenient \in BOOLEAN :
          Do("load_urdf", [position |-> position, orientation |-> orientation],
             load_urdf("robot.urdf", position, orientation, use_fixed_base, lenient))
    \/ \E position \in PositionInputs, orientation \in OrientationInputs,
          color \in {None, Some(<<1, 0, 0, 1>>)}, flags \in {None, Some(1)},
          lenient \in BOOLEAN :
          \E filename \in MeshFiles :
          Do("load_mesh", [position |-> position, orientation |-> Some(orientation),
                           filename |-> filename],
             load_mesh(filename, position, orientation, 1, <<1, 1, 1>>, color, flags,
                       lenient))
    \/ \E position \in PositionInputs, orientation \in OrientationInputs,
          lenient \in BOOLEAN :
          Do("create_body", [position |-> position, orientation |-> Some(orientation)],
             create_body(-1, -1, 0, position, orientation, lenient))
    \/ \E parent \in OrientationInputs, child \in OrientationInputs, lenient \in BOOLEAN :
          Do("create_constraint", [orientation |-> Some(parent), child |-> child],
             create_constraint(JOINT_FIXED, PyTuple(<<0, 0, 1>>), PyTuple(<<0, 0, 0>>),
                               PyTuple(<<0, 0, 0>>), parent, child, lenient))
    \/ \E position \in PositionInputs, orientation \in OrientationInputs,
          lenient \in BOOLEAN :
          Do("reset_base_pose", [position |-> position, orientation |-> Some(orientation)],
             reset_base_pose(position, orientation, lenient))
    \/ \E position \in PositionInputs, lenient \in BOOLEAN :
          Do("reset_base_position", [position |-> position],
             reset_base_position(engine, position, lenient))
    \/ \E orientation \in OrientationInputs, lenient \in BOOLEAN :
          Do("reset_base_orientation", [orientation |-> Some(orientation)],
             reset_base_orientation(engine, orientation, lenient))
    \/ \E link_id \in Joints, position \in PositionInputs, a \in IKInputs,
          lenient \in BOOLEAN :
          Do("calculate_inverse_kinematics",
             [position |-> position, orientation |-> a.orientation, opt |-> a],
             calculate_inverse_kinematics(engine, link_id, position, a, lenient))

NextBodies == Bodies \/ Return

SpecBodies == Init /\ [][NextBodies]_vars

Commands ==
    \/ \E j \in Joints, js \in JointLists, single \in BOOLEAN,
          velocities \in BOOLEAN, forces \in BOOLEAN, gains \in BOOLEAN :
          LET joint_ids == IF single THEN PyInt(j) ELSE PyList(js)
              v == ValuesFor(joint_ids)
          IN  Do("set_joint_positions", [joint_ids |-> joint_ids],
                 set_joint_positions(joint_ids, v,
                                     IF velocities THEN Some(v) ELSE None,
                                     IF gains THEN Some(v) ELSE None,
                                     IF gains THEN Some(v) ELSE None,
                                     IF forces THEN Some(v) ELSE None))
    \/ \E j \in Joints, js \in JointLists, single \in BOOLEAN, force \in BOOLEAN,
          tolerated \in Tolerances :
          LET joint_ids == IF single THEN PyInt(j) ELSE PyList(js)
              max_force == IF force THEN Some(ValuesFor(joint_ids)) ELSE None
          IN  Do("set_joint_velocities", [joint_ids |-> joint_ids, max_force |-> max_force],
                 set_joint_velocities(joint_ids, ValuesFor(joint_ids), max_force,
                                      tolerated))
    \/ \E j \in Joints, js \in JointLists, single \in BOOLEAN, tolerated \in Tolerances :
          LET joint_ids == IF single THEN PyInt(j) ELSE PyList(js)
          IN  Do("set_joint_torques", [joint_ids |-> joint_ids],
                 set_joint_torques(joint_ids, ValuesFor(joint_ids), tolerated))
    \/ \E j \in Joints, js \in JointLists, single \in BOOLEAN,
          n \in 0 .. MaxJoint + 1, array \in BOOLEAN,
          q \in {None, Some(np_zeros(MaxJoint + 1))},
          dq \in {None, Some(np_zeros(MaxJoint + 1))},
          tolerated \in Tolerances :
          LET joint_ids == IF single THEN PyInt(j) ELSE PyList(js)
              accelerations == AccelerationsOf(n, array)
          IN  Do("set_joint_accelerations",
                 [joint_ids |-> joint_ids, accelerations |-> accelerations,
                  q |-> q, dq |-> dq],
                 set_joint_accelerations(engine, joint_ids, accelerations, q, dq,
                                         tolerated))

NextCommands == Commands \/ Return

SpecCommands == Init /\ [][NextCommands]_vars

\* the geometry arguments a caller passes: the defaults of the signature
\* (a radius is a quotient, 0.5 = 1/2), and values of its own
VisualGeometries ==
    {[radius |-> <<1, 2>>, half_extents |-> <<1, 1, 1>>, length |-> 1,
      mesh_scale |-> <<1, 1, 1>>, plane_normal |-> <<0, 0, 1>>, flags |-> -1],
     [radius |-> <<2, 1>>, half_extents |-> <<2, 3, 4>>, length |-> 5,
      mesh_scale |-> <<2, 2, 2>>, plane_normal |-> <<1, 0, 0>>, flags |-> 0]}
CollisionGeometries ==
    {[radius |-> <<1, 2>>, half_extents |-> <<1, 1, 1>>, height |-> 1,
      mesh_scale |-> <<1, 1, 1>>, plane_normal |-> <<0, 0, 1>>, flags |-> -1],
     [radius |-> <<2, 1>>, half_extents |-> <<2, 3, 4>>, height |-> 5,
      mesh_scale |-> <<2, 2, 2>>, plane_normal |-> <<1, 0, 0>>, flags |-> 0]}

Shapes ==
    \/ \E shape_type \in ShapeTypes, g \in VisualGeometries, filename \in Filenames,
          a \in VisualShapeInputs :
          Do("create_visual_shape",
             [shape_type |-> shape_type, g |-> g, filename |-> filename, opt |-> a],
             create_visual_shape(shape_type, g, filename, a))
    \/ \E shape_type \in ShapeTypes, g \in CollisionGeometries, filename \in Filenames,
          a \in CollisionShapeInputs :
          Do("create_collision_shape",
             [shape_type |-> shape_type, g |-> g, filename |-> filename, opt |-> a],
             create_collision_shape(shape_type, g, filename, a))

\* the vectors a caller passes: a tuple, a list, an array of three numbers,
\* and a column of three numbers
VectorInputs ==
    {PyTuple(<<0, 0, 1>>), PyList(<<3, 2, 1>>), np_array(<<1, 2, 3>>),
     np_array2(<< <<1>>, <<2>>, <<3>> >>)}
\* the gravity vectors a caller passes
GravityInputs == {PyTuple(<<0, 0, -10>>), PyList(<<1, 2, 3>>), np_array(<<1, 2, 3>>)}

Vectors ==
    \/ \E gravity \in GravityInputs :
          Do("set_gravity", [position |-> gravity], set_gravity(gravity))
    \/ \E from_position \in VectorInputs, to_position \in VectorInputs :
          Do("ray_test", [position |-> from_position, to_position |-> to_position],
             ray_test(from_position, to_position))
    \/ \E link_id \in Ids, local_position \in VectorInputs, array \in BOOLEAN :
          LET q == IF array THEN np_zeros(MaxJoint + 1)
                   ELSE PyList([k \in 1 .. MaxJoint + 1 |-> 0])
          IN  Do("calculate_jacobian", [position |-> local_position, link_id |-> link_id],
                 calculate_jacobian(engine, link_id, local_position, q, q, q))

\* the operations that forward a vector of three components
NextVectors == Vectors \/ Bodies \/ Return

SpecVectors == Init /\ [][NextVectors]_vars

LoggingInputs == OptArgs(Params(LoggingTable))

\* start_logging; stop_logging with a logger id the caller names; and the
\* sequence id = start_logging(...); stop_logging(id), in which the caller
\* passes on what start_logging has just returned
Logging ==
    \/ \E logging_type \in {0, 1}, a \in LoggingInputs :
          /\ engine.started < MaxLoggers
          /\ Do("start_logging", [logging_type |-> logging_type, opt |-> a],
                start_logging(engine, logging_type, "log.bin", a))
    \/ \E logger_id \in 0 .. MaxLoggers :
          Do("stop_logging", [logger_id |-> Some(logger_id), sequel |-> FALSE],
             stop_logging(engine, Some(logger_id), FALSE))
    \/ \E lenient \in BOOLEAN :
          /\ pc = "done"
          /\ op = "start_logging"
          /\ err = "none"
          /\ LET o == stop_logging(engine, ret, lenient)
             IN  Finish("stop_logging", [logger_id |-> ret, sequel |-> TRUE],
                        o.calls, o.ret, o.err)

NextLogging == Logging \/ Return

SpecLogging == Init /\ [][NextLogging]_vars

\* the bodies and the links a caller asks about, and the largest distance
BodyIds == {0, 1}
LinkInputs == {None, Some(-1), Some(0)}
Distances == {0, 2}

Contacts ==
    \/ \E body_a \in {None} \cup {Some(b) : b \in BodyIds},
          body_b \in {None} \cup {Some(b) : b \in BodyIds},
          link_id_a \in LinkInputs, link_id_b \in LinkInputs :
          Do("get_contact_points",
             [body_a |-> body_a, body_b |-> body_b,
              link_id_a |-> link_id_a, link_id_b |-> link_id_b],
             get_contact_points(engine, body_a, body_b, link_id_a, link_id_b))
    \/ \E body_a \in BodyIds, body_b \in BodyIds, distance \in Distances,
          link_id_a \in LinkInputs, link_id_b \in LinkInputs, lenient \in BOOLEAN :
          Do("get_closest_points",
             [body_a |-> body_a, body_b |-> body_b, distance |-> distance,
              link_id_a |-> link_id_a, link_id_b |-> link_id_b],
             get_closest_points(engine, body_a, body_b, distance, link_id_a,
                                link_id_b, lenient))
    \/ \E position \in PositionInputs :
          Do("reset_base_position", [position |-> position],
             reset_base_position(engine, position, TRUE))

NextContacts == Contacts \/ step \/ Return

SpecContacts == Init /\ [][NextContacts]_vars

\* save, in memory and to a file; load of what the last save returned, of
\* a state id and of a file name; and the operations that change the world
\* in between: a step, a new pose of the base, the removal of the other body
States ==
    \/ \E filename \in {None, Some("state.bullet")} :
          /\ Len(engine.saved) + Cardinality(DOMAIN engine.files) < MaxSaves
          /\ Do("save", [filename |-> filename], save(engine, filename))
    \/ \E lenient \in BOOLEAN :
          /\ held.saved
          /\ Do("load", [state |-> held.value, returned |-> TRUE],
                load(engine, held.value, lenient))
    \/ \E state_id \in 0 .. MaxSaves, lenient \in BOOLEAN :
          Do("load", [state |-> PyInt(state_id), returned |-> FALSE],
             load(engine, PyInt(state_id), lenient))
    \/ \E lenient \in BOOLEAN :
          Do("load", [state |-> PyStr("state.bullet"), returned |-> FALSE],
             load(engine, PyStr("state.bullet"), lenient))
    \/ \E position \in PositionInputs :
          Do("reset_base_pose",
             [position |-> position, orientation |-> Some(PyTuple(<<0, 0, 0, 1>>))],
             reset_base_pose(position, PyTuple(<<0, 0, 0, 1>>), TRUE))
    \/ /\ 1 \in engine.bodies
       /\ Do("remove_body", [body_id |-> 1], remove_body(1))

NextStates == States \/ step \/ Return

SpecStates == Init /\ [][NextStates]_vars

\* the bodies a simulator may hold: up to MaxJoint + 1 joints, each
\* revolute, prismatic or fixed
JointTypes == {JOINT_REVOLUTE, JOINT_PRISMATIC, JOINT_FIXED}
Robots ==
    {[InitEngine EXCEPT !.numJoints = n, !.jointType = types] :
        n \in 0 .. MaxJoint + 1, types \in [Joints -> JointTypes]}

InitRobots ==
    /\ pc = "idle"
    /\ op = "none"
    /\ args = None
    /\ calls = <<>>
    /\ ret = None
    /\ err = "none"
    /\ engine \in Robots
    /\ self = Bullet
    /\ pre = engine
    /\ held = [saved |-> FALSE]

JointQueries ==
    \/ Do("get_actuated_joint_ids", None, get_actuated_joint_ids(engine))
    \/ Do("num_joints", None, num_joints(engine))
    \/ \E joint_id \in Ids :
          Do("get_joint_info", [joint_id |-> joint_id], get_joint_info(engine, joint_id))

NextJoints == JointQueries \/ step \/ Return

SpecJoints == InitRobots /\ [][NextJoints]_vars

Masses ==
    \/ Do("get_center_of_mass", [ids |-> None], get_center_of_mass(engine, None))
    \/ \E link_ids \in ListInputs :
          Do("get_center_of_mass", [ids |-> Some(link_ids)],
             get_center_of_mass(engine, Some(link_ids)))

\* the operations that issue several engine calls, any of which may fail
NextFailures == Bodies \/ Masses \/ Return

SpecFailures == Init /\ [][NextFailures]_vars

NextShapes == Shapes \/ Return

SpecShapes == Init /\ [][NextShapes]_vars

Cameras ==
    \/ \E eye \in Positions, target \in Positions :
          Do("compute_view_matrix",
             [eye_position |-> eye, target_position |-> target],
             compute_view_matrix(eye, target, <<0, 0, 1>>))
    \/ \E yaw \in Angles, pitch \in Angles, roll \in Angles :
          Do("compute_view_matrix_from_ypr",
             [yaw |-> yaw, pitch |-> pitch, roll |-> roll],
             compute_view_matrix_from_ypr(<<0, 0, 0>>, 1, yaw, pitch, roll, 2))
    \/ \E left \in {-2, -1}, near \in {1, 2} :
          Do("compute_projection_matrix", [left |-> left, near |-> near],
             compute_projection_matrix(left, 1, -1, 1, near, 3))
    \/ \E fov \in Angles :
          Do("compute_projection_matrix_fov", [fov |-> fov],
             compute_projection_matrix_fov(fov, 1, 1, 3))
    \/ Do("get_debug_visualizer", None, get_debug_visualizer(engine))
    \/ \E yaw \in Angles, pitch \in Angles, target \in Positions :
          Do("reset_debug_visualizer", [yaw |-> yaw, pitch |-> pitch],
             reset_debug_visualizer(2, yaw, pitch, target))

NextCameras == Cameras \/ Return

SpecCameras == Init /\ [][NextCameras]_vars

Accessors ==
    \/ \E name \in BatchAccessors, ids \in IntInputs : CallAccessor(name, ids)
    \/ \E name \in BatchAccessors, ids \in ListInputs : CallAccessor(name, ids)

NextAccessors == Accessors \/ step \/ Return

SpecAccessors == Init /\ [][NextAccessors]_vars

\* one invocation of any operation on the adapter as constructed
Next == Setters \/ Commands \/ Shapes \/ Bodies \/ Cameras \/ Accessors \/ step

Spec == Init /\ [][Next]_vars

(***************************************************************************)
(* C1, C2: the structured setters                                          *)
(***************************************************************************)
StructuredSetters ==
    {"set_physics_properties", "change_constraint", "change_dynamics",
     "change_visual_shape", "set_joint_motor_control",
     "set_joint_motor_control_array", "reset_base_velocity"}

MotorSetters == {"set_joint_motor_control", "set_joint_motor_control_array"}

\* the <<parameter, engine keyword>> pairs of a setter, as its source names them
TableOf(o) ==
    CASE o = "set_physics_properties" -> PhysicsTable
      [] o = "change_constraint" -> ConstraintTable
      [] o = "change_dynamics" -> DynamicsTable
      [] o = "change_visual_shape" -> VisualTable
      [] o = "set_joint_motor_control" -> MotorTable
      [] o = "set_joint_motor_control_array" -> MotorArrayTable
      [] o = "reset_base_velocity" -> VelocityTable

\* the None-defaulted parameters the caller supplied with a value
Supplied == {p \in DOMAIN args.opt : args.opt[p] # None}

\* the engine keywords of the supplied parameters, each with the value supplied
SuppliedKeywords ==
    LET table == TableOf(op)
    IN  {<<table[i][2], Get(args.opt[table[i][1]])>> :
            i \in {j \in 1 .. Len(table) : table[j][1] \in Supplied}}

\* the keywords of a call that stand for None-defaulted parameters
OptionalKeywords(c) ==
    {<<k, c.kw[k]>> : k \in DOMAIN c.kw \ {"controlMode"}}

\* C1: a structured setter forwards the engine keyword of exactly the
\* None-defaulted parameters the caller supplied with a value (0 and False
\* included): no omitted parameter appears in the call and no supplied one
\* is dropped.
C1_ExactlySuppliedForwarded ==
    (pc = "done" /\ op \in StructuredSetters) =>
        /\ \A i \in 1 .. Len(calls) : OptionalKeywords(calls[i]) = SuppliedKeywords
        /\ Supplied # {} => Len(calls) = 1

C1_Witness ==
    /\ pc = "done"
    /\ op = "set_physics_properties"
    /\ Supplied = {"time_step", "enable_cone_friction"}
    /\ args.opt["time_step"] = Some(0)
    /\ Len(calls) = 1
    /\ DOMAIN calls[1].kw = {"fixedTimeStep", "enableConeFriction"}

\* C2 as stated: after a setter call, every engine-side value whose
\* parameter the caller did not pass is unchanged; a motor command called
\* without control_mode leaves the control mode of every joint as it was.
C2_OmittedLeftUnchanged ==
    (pc = "done" /\ op \in StructuredSetters) =>
        /\ \A i \in 1 .. Len(calls) : OptionalKeywords(calls[i]) \subseteq SuppliedKeywords
        /\ (op \in MotorSetters /\ args.control_mode = None) =>
               engine.controlMode = pre.controlMode

\* C2 amended: a structured setter forwards no keyword of a None-defaulted
\* parameter the caller did not pass, and it changes the control mode of no
\* joint it does not address; but the two motor commands always forward
\* controlMode: called without control_mode they put the joints they
\* address in POSITION_CONTROL, the default of their signature.
C2_OmittedUnchangedButMode ==
    (pc = "done" /\ op \in StructuredSetters) =>
        /\ \A i \in 1 .. Len(calls) : OptionalKeywords(calls[i]) \subseteq SuppliedKeywords
        /\ op \notin MotorSetters => engine = pre
        /\ op \in MotorSetters =>
             \A j \in Joints :
                engine.controlMode[j] =
                   IF j \notin Range(args.joint_ids) THEN pre.controlMode[j]
                   ELSE IF args.control_mode = None THEN POSITION_CONTROL
                   ELSE Get(args.control_mode)

C2_Witness ==
    /\ pc = "done"
    /\ op = "set_joint_motor_control"
    /\ args.control_mode = None
    /\ args.joint_ids = <<0>>
    /\ pre.controlMode[0] = TORQUE_CONTROL
    /\ engine.controlMode[0] = POSITION_CONTROL
    /\ engine.controlMode[1] = pre.controlMode[1]

(***************************************************************************)
(* C4, C5: the batch accessors                                             *)
(***************************************************************************)
\* the first element of a returned collection, and its k-th (from 1)
Item(r, k) == IF r.type = "list" THEN r.v[k] ELSE np_item(r, k - 1)
Size(r) == IF r.type = "list" THEN Len(r.v) ELSE r.shape[1]

\* C4: for every batch accessor, every identifier i (the base id -1 and an
\* index the body does not have included) and every engine state, the call
\* with the single identifier i returns what the call with the list [i]
\* returns as its first element; the one fails exactly when the other does.
C4_SingleEqualsFirstOfList ==
    (pc = "done" /\ op \in BatchAccessors /\ isinstance(args.ids, "int")) =>
        LET l == Accessor(op, pre, PyList(<<args.ids.v>>))
        IN  /\ (err = "none") <=> (l.err = "none")
            /\ err = "none" => /\ Size(Get(l.ret)) = 1
                               /\ Get(ret) = Item(Get(l.ret), 1)

C4_Witness ==
    /\ pc = "done"
    /\ op = "get_qindex"
    /\ isinstance(args.ids, "int")
    /\ args.ids.v = 1
    /\ pre.t = 1
    /\ err = "none"
    /\ Get(ret) = 1
    /\ Accessor(op, pre, PyList(<<1>>)).ret = Some(np_array(<<1>>))

\* the acceleration of joint i: the entry of joint i in
\* H^-1 (tau - C(q, dq)), tau being the torques applied at all the joints
AccelerationOf(e, i) ==
    LET js == [k \in 1 .. MaxJoint + 1 |-> k - 1]
        tau == [k \in 1 .. Len(js) |-> JointStateOf(e, js[k])[4]]
        C == InverseDynamicsOf(e, [k \in 1 .. Len(js) |-> JointStateOf(e, js[k])[1]],
                               [k \in 1 .. Len(js) |-> JointStateOf(e, js[k])[2]],
                               [k \in 1 .. Len(js) |-> 0])
        Hinv == np_linalg_inv(np_array2(MassMatrixOf(e)))
    IN  Get(np_dot(Hinv, np_array([k \in 1 .. Len(js) |-> tau[k] - C[k]]))).data[i + 1]

\* what the engine holds as the value of identifier i, for each accessor
ValueOf(name, e, i) ==
    CASE name = "get_link_names" -> JointInfoOf(e, i)[13]
      [] name = "get_link_masses" -> DynamicsInfoOf(e, i)[1]
      [] name = "get_link_world_positions" ->
           np_array(IF i = -1 THEN e.basePos ELSE LinkStateOf(e, i, TRUE)[1])
      [] name = "get_link_world_orientations" ->
           np_array(IF i = -1 THEN e.baseOrn ELSE LinkStateOf(e, i, TRUE)[2])
      [] name = "get_link_world_linear_velocities" ->
           np_array(IF i = -1 THEN BaseVelocityOf(e)[1]
                    ELSE LinkStateOf(e, i, TRUE)[7])
      [] name = "get_link_world_angular_velocities" ->
           np_array(IF i = -1 THEN BaseVelocityOf(e)[2]
                    ELSE LinkStateOf(e, i, TRUE)[8])
      [] name = "get_link_world_velocities" ->
           np_array(IF i = -1 THEN BaseVelocityOf(e)[1] \o BaseVelocityOf(e)[2]
                    ELSE LinkStateOf(e, i, TRUE)[7] \o LinkStateOf(e, i, TRUE)[8])
      [] name = "get_qindex" -> JointInfoOf(e, i)[4] - 7
      [] name = "get_joint_names" -> JointInfoOf(e, i)[2]
      [] name = "get_joint_dampings" -> JointInfoOf(e, i)[7]
      [] name = "get_joint_frictions" -> JointInfoOf(e, i)[8]
      [] name = "get_joint_limits" ->
           np_array(<< JointInfoOf(e, i)[9], JointInfoOf(e, i)[10] >>)
      [] name = "get_joint_max_forces" -> JointInfoOf(e, i)[11]
      [] name = "get_joint_max_velocities" -> JointInfoOf(e, i)[12]
      [] name = "get_joint_axes" -> np_array(JointInfoOf(e, i)[14])
      [] name = "get_joint_positions" -> JointStateOf(e, i)[1]
      [] name = "get_joint_velocities" -> JointStateOf(e, i)[2]
      [] name = "get_joint_torques" -> JointStateOf(e, i)[4]
      [] name = "get_joint_reaction_forces" -> np_array(JointStateOf(e, i)[3])
      [] name = "get_joint_powers" -> JointStateOf(e, i)[4] * JointStateOf(e, i)[2]
      [] name = "get_joint_accelerations" -> AccelerationOf(e, i)

\* C5: a batch accessor called with the identifiers [i1 .. in] (the base id,
\* link ids, repeats) returns n elements, the k-th being the value of ik.
C5_ListInInputOrder ==
    (pc = "done" /\ op \in BatchAccessors /\ isinstance(args.ids, "list")
       /\ err = "none") =>
        /\ Size(Get(ret)) = Len(args.ids.v)
        /\ \A k \in 1 .. Len(args.ids.v) :
              Item(Get(ret), k) = ValueOf(op, pre, args.ids.v[k])

\* what does hold: the same for every accessor but the angular velocity of
\* the base and the joint accelerations
C5_InOrderButBaseAngular ==
    (pc = "done" /\ op \in BatchAccessors /\ isinstance(args.ids, "list")
       /\ err = "none") =>
        /\ Size(Get(ret)) = Len(args.ids.v)
        /\ \A k \in 1 .. Len(args.ids.v) :
              \/ op = "get_link_world_angular_velocities" /\ args.ids.v[k] = -1
              \/ op = "get_joint_accelerations"
              \/ Item(Get(ret), k) = ValueOf(op, pre, args.ids.v[k])

(***************************************************************************)
(* C6, C7, C8: angles and matrices                                         *)
(***************************************************************************)
\* C6: wherever the engine takes an angle in degrees (yaw, pitch and roll of
\* computeViewMatrixFromYawPitchRoll, yaw and pitch of
\* resetDebugVisualizerCamera, the field of view of
\* computeProjectionMatrixFOV), the value forwarded is the caller's radian
\* argument converted to degrees.
C6_DegreesForwarded ==
    /\ (pc = "done" /\ op = "compute_view_matrix_from_ypr") =>
          /\ calls[1].kw["yaw"] = np_rad2deg(args.yaw)
          /\ calls[1].kw["pitch"] = np_rad2deg(args.pitch)
          /\ calls[1].kw["roll"] = np_rad2deg(args.roll)
    /\ (pc = "done" /\ op = "reset_debug_visualizer") =>
          /\ calls[1].kw["cameraYaw"] = np_rad2deg(args.yaw)
          /\ calls[1].kw["cameraPitch"] = np_rad2deg(args.pitch)
    /\ (pc = "done" /\ op = "compute_projection_matrix_fov") =>
          calls[1].pos[1] = np_rad2deg(args.fov)

\* what does hold: the two operations that convert
C6_DegreesForwardedButFov ==
    /\ (pc = "done" /\ op = "compute_view_matrix_from_ypr") =>
          /\ calls[1].kw["yaw"] = np_rad2deg(args.yaw)
          /\ calls[1].kw["pitch"] = np_rad2deg(args.pitch)
          /\ calls[1].kw["roll"] = np_rad2deg(args.roll)
    /\ (pc = "done" /\ op = "reset_debug_visualizer") =>
          /\ calls[1].kw["cameraYaw"] = np_rad2deg(args.yaw)
          /\ calls[1].kw["cameraPitch"] = np_rad2deg(args.pitch)
    /\ (pc = "done" /\ op = "compute_projection_matrix_fov") =>
          calls[1].pos[1] = args.fov

\* C7: after reset_debug_visualizer(distance, yaw, pitch, target), with the
\* camera as that call left it, get_debug_visualizer returns that yaw and
\* that pitch, in radians, and not the degrees the engine keeps.
C7_YawPitchRoundTrip ==
    (pc = "done" /\ op = "reset_debug_visualizer") =>
        LET got == Get(get_debug_visualizer(engine).ret)
        IN  /\ At(got, 8) = args.yaw
            /\ At(got, 9) = args.pitch
            /\ args.yaw.n # 0 => At(got, 8) # engine.cam.yaw
            /\ args.pitch.n # 0 => At(got, 9) # engine.cam.pitch

C7_Witness ==
    /\ pc = "done"
    /\ op = "reset_debug_visualizer"
    /\ args.yaw = Real(45, 1)
    /\ args.pitch = Real(-90, 1)
    /\ engine.cam.yaw = Real(45, 0)
    /\ pre.cam.yaw # Real(45, 0)
    /\ At(Get(get_debug_visualizer(engine).ret), 8) = Real(45, 1)

\* M[r][c] = L[4 c + r] for r, c in 0 .. 3: the matrix M the adapter returns
\* is the transpose of the row-wise reshape of the flat list L of the engine
ColumnMajor(M, L) ==
    /\ M.shape = <<4, 4>>
    /\ \A r \in 0 .. 3, c \in 0 .. 3 : Rows(M)[r + 1][c + 1] = L[4 * c + r + 1]

\* C8: every operation that returns a matrix returns the transpose of the
\* row-wise reshape of the engine's flat list: compute_view_matrix,
\* compute_view_matrix_from_ypr, compute_projection_matrix,
\* compute_projection_matrix_fov, and the view and the projection matrix of
\* get_debug_visualizer.
C8_OneMatrixConvention ==
    /\ (pc = "done" /\ op = "compute_view_matrix") =>
          ColumnMajor(Get(ret), FlatMatrix("view", calls[1].kw))
    /\ (pc = "done" /\ op = "compute_view_matrix_from_ypr") =>
          ColumnMajor(Get(ret), FlatMatrix("viewYPR", calls[1].kw))
    /\ (pc = "done" /\ op = "compute_projection_matrix") =>
          ColumnMajor(Get(ret), FlatMatrix("projection", calls[1].pos))
    /\ (pc = "done" /\ op = "compute_projection_matrix_fov") =>
          ColumnMajor(Get(ret), FlatMatrix("projectionFOV", calls[1].pos))
    /\ (pc = "done" /\ op = "get_debug_visualizer") =>
          /\ ColumnMajor(At(Get(ret), 2), FlatMatrix("camera view", pre.cam))
          /\ ColumnMajor(At(Get(ret), 3), FlatMatrix("camera projection", pre.cam))

C8_Witness ==
    /\ pc = "done"
    /\ op = "compute_projection_matrix"
    /\ Rows(Get(ret))[1][2].entry = 5
    /\ Rows(Get(ret))[4][1].entry = 4


(***************************************************************************)
(* Orientations                                                            *)
(***************************************************************************)
OrientationOperations ==
    {"load_urdf", "create_body", "load_mesh", "reset_base_pose", "reset_base_orientation",
     "create_constraint", "calculate_inverse_kinematics"}

\* the orientation as the engine call of the finished operation carries it
SentOrientation ==
    LET c == calls[Len(calls)]
    IN  CASE op = "load_urdf" -> Get(c.pos[3])
          [] op \in {"load_mesh", "create_body"} -> c.kw["baseOrientation"]
          [] op = "create_constraint" -> c.pos[9]
          [] op \in {"reset_base_pose", "reset_base_orientation"} -> c.pos[3]
          [] op = "calculate_inverse_kinematics" -> c.kw["targetOrientation"]

\* the engine functions that take an orientation
OrientationCalls ==
    {"loadURDF", "createMultiBody", "createConstraint", "resetBasePositionAndOrientation",
     "calculateInverseKinematics"}

\* the operation was given a quaternion object and reached the engine call
\* that carries the orientation
QuaternionGiven ==
    /\ pc = "done"
    /\ op \in OrientationOperations
    /\ args.orientation # None
    /\ isinstance(Get(args.orientation), "quaternion")
    /\ calls # <<>>
    /\ calls[Len(calls)].fn \in OrientationCalls

ScalarLast ==
    LET q == Get(args.orientation)
    IN  /\ Readable(SentOrientation)
        /\ Components(SentOrientation) = << q.x, q.y, q.z, q.w >>

\* C9: in every operation that accepts an orientation (load_urdf, create_body,
\* load_mesh, reset_base_pose, reset_base_orientation, create_constraint,
\* calculate_inverse_kinematics), an orientation supplied as a quaternion
\* object (w, x, y, z) reaches the engine as the four components in the
\* order x, y, z, w.
C9_QuaternionReachesEngineScalarLast == QuaternionGiven => ScalarLast

\* the two operations that convert the quaternion object do deliver it in
\* the order x, y, z, w, also when w differs from the other components
C9_ConvertedInLoadUrdfAndCreateBody ==
    QuaternionGiven /\ op \in {"load_urdf", "create_body"} => ScalarLast


(***************************************************************************)
(* C3: engine calls per operation                                          *)
(***************************************************************************)
\* the operations that forward to one engine function
Wrappers ==
    {"set_physics_properties", "change_constraint", "change_dynamics",
     "change_visual_shape", "set_joint_motor_control", "set_joint_motor_control_array",
     "set_joint_positions", "load_urdf", "create_body", "create_constraint",
     "reset_base_pose", "calculate_inverse_kinematics", "create_visual_shape",
     "create_collision_shape", "compute_view_matrix", "compute_view_matrix_from_ypr",
     "compute_projection_matrix", "compute_projection_matrix_fov",
     "get_debug_visualizer", "reset_debug_visualizer", "step"}
\* the batch accessors that read all the asked joints with one getJointStates
JointStateAccessors ==
    {"get_joint_positions", "get_joint_velocities", "get_joint_torques",
     "get_joint_reaction_forces"}
\* the batch accessors that query the engine once per identifier
PerIdAccessors ==
    BatchAccessors \ (JointStateAccessors \cup {"get_joint_powers", "get_joint_accelerations"})
\* the operations that compose other operations of the adapter
Composites ==
    {"set_joint_velocities", "set_joint_torques", "set_joint_accelerations",
     "get_joint_accelerations"}

\* C3 as stated: every operation issues exactly one engine call per
\* invocation, for every operation and every argument combination.
C3_ExactlyOneCall == pc = "done" => Len(calls) = 1

\* C3 amended: an operation that completes issues exactly one engine call
\* when it forwards to one engine function or reads the joints of a list
\* with one getJointStates; but load_mesh issues three calls (collision
\* shape, visual shape, body), reset_base_position and
\* reset_base_orientation two (read the pose, reset it), reset_base_velocity
\* none when no velocity is given, a batch accessor that queries per
\* identifier one call per identifier of the list, get_joint_powers two, and
\* set_joint_velocities, set_joint_torques, set_joint_accelerations and
\* get_joint_accelerations at least one.
C3_CallsPerOperation ==
    (pc = "done" /\ err = "none") =>
        /\ op \in Wrappers => Len(calls) = 1
        /\ op = "load_mesh" => Len(calls) = 3
        /\ op \in {"reset_base_position", "reset_base_orientation"} => Len(calls) = 2
        /\ op = "reset_base_velocity" => Len(calls) = IF Supplied = {} THEN 0 ELSE 1
        /\ op \in PerIdAccessors =>
               Len(calls) = IF isinstance(args.ids, "int") THEN 1 ELSE Len(args.ids.v)
        /\ op \in JointStateAccessors => Len(calls) = 1
        /\ op = "get_joint_powers" => Len(calls) = 2
        /\ op \in Composites => Len(calls) >= 1
        /\ op \in Wrappers \cup PerIdAccessors \cup JointStateAccessors \cup Composites
                  \cup {"load_mesh", "reset_base_position", "reset_base_orientation",
                        "reset_base_velocity", "get_joint_powers"}

C3_Witness ==
    /\ pc = "done"
    /\ err = "none"
    /\ op = "load_mesh"
    /\ [k \in 1 .. Len(calls) |-> calls[k].fn]
         = << "createCollisionShape", "createVisualShape", "createMultiBody" >>


(***************************************************************************)
(* C10: errors the adapter raises itself                                   *)
(***************************************************************************)
ShapeCreation == {"create_visual_shape", "create_collision_shape"}
GeomKinds == {GEOM_SPHERE, GEOM_BOX, GEOM_CAPSULE, GEOM_CYLINDER, GEOM_PLANE, GEOM_MESH}
\* the operation ended with an error that no engine call raised
OwnError == pc = "done" /\ err \notin {"none", "engine"}
\* the number of accelerations and of joint ids a caller of
\* set_joint_accelerations passed
Given(x) == IF isinstance(x, "int") THEN 1 ELSE len(x)

CreationOf(o) == IF o = "create_visual_shape" THEN "createVisualShape"
                 ELSE "createCollisionShape"

\* C11: create_visual_shape and create_collision_shape called with a
\* shape_type outside the six geometry kinds raise ValueError without any
\* engine call, and the engine is as it was; with a shape_type inside the
\* six kinds they never raise ValueError and issue exactly one call, the
\* creation of the shape of that kind.
C11_KindValidatedBeforeAnyCall ==
    (pc = "done" /\ op \in ShapeCreation) =>
        IF args.shape_type \notin GeomKinds
        THEN err = "ValueError" /\ calls = <<>> /\ engine = pre
        ELSE /\ err # "ValueError"
             /\ Len(calls) = 1
             /\ calls[1].fn = CreationOf(op)
             /\ calls[1].pos = << args.shape_type >>

C11_Witness ==
    /\ pc = "done"
    /\ op = "create_visual_shape"
    /\ args.shape_type = GEOM_CAPSULE + 1
    /\ args.opt["rgba_color"] # None
    /\ err = "ValueError"
    /\ calls = <<>>


(***************************************************************************)
(* C12: a failing engine call ends the operation                           *)
(***************************************************************************)
\* the engine calls of these operations that the engine refuses for certain:
\* a link the body does not have, a mesh file that cannot be loaded
Refused(c) ==
    CASE c.fn = "getLinkState" -> c.pos[2] \notin Joints
      [] c.fn = "getDynamicsInfo" -> c.pos[2] \notin Links
      [] c.fn \in {"createCollisionShape", "createVisualShape"} ->
           ~Loadable(c.kw["fileName"])
      [] OTHER -> FALSE
\* the engine calls that carry a position or an orientation, which the
\* engine may refuse when it cannot read it
MayBeRefused(c) ==
    \/ Refused(c)
    \/ c.fn \in OrientationCalls \ {"calculateInverseKinematics"}
    \/ c.fn = "calculateInverseKinematics" /\ "targetOrientation" \in DOMAIN c.kw

\* C12: when an engine call of an operation fails, the operation ends
\* there: the engine's error reaches the caller in place of a result, the
\* failed call is the last call the operation issued (it is not retried
\* and no call follows it), and an operation that completes has had no
\* call refused.  In load_mesh a mesh file the engine cannot load ends the
\* operation at the first call; in get_center_of_mass a link the body does
\* not have ends it at the query of that link.
C12_FailedCallIsTheLast ==
    pc = "done" =>
        /\ \A i \in 1 .. Len(calls) - 1 : ~Refused(calls[i])
        /\ err = "none" => \A i \in 1 .. Len(calls) : ~Refused(calls[i])
        /\ err = "engine" =>
             /\ ret = None
             /\ calls # <<>>
             /\ MayBeRefused(calls[Len(calls)])
        /\ err \in {"none", "engine"}
        /\ (op = "load_mesh" /\ ~Loadable(args.filename)) =>
               /\ err = "engine"
               /\ Len(calls) = 1
        /\ (op = "get_center_of_mass" /\ args.ids # None) =>
               LET ids == Get(args.ids).v
               IN  IF \A k \in 1 .. Len(ids) : ids[k] \in Links
                   THEN err = "none" /\ Len(calls) = 2 * Len(ids)
                   ELSE /\ err = "engine"
                        /\ calls[Len(calls)].fn \in {"getLinkState", "getDynamicsInfo"}
                        /\ Len(calls) <= 2 * Len(ids)

\* get_center_of_mass(body, [0, MaxJoint + 1]): the second position query
\* fails, and no mass is asked for
C12_Witness ==
    /\ pc = "done"
    /\ op = "get_center_of_mass"
    /\ args.ids = Some(PyList(<< 0, MaxJoint + 1 >>))
    /\ err = "engine"
    /\ [k \in 1 .. Len(calls) |-> calls[k].fn] = << "getLinkState", "getLinkState" >>
    /\ ret = None


(***************************************************************************)
(* C13: the adapter keeps no state                                         *)
(***************************************************************************)
\* the query with which reset_base_position and reset_base_orientation read
\* the pose of the base
PoseQuery == Call("getBasePositionAndOrientation", << 0 >>, NoKw)

VectorOperations == {"load_urdf", "create_body", "ray_test", "calculate_jacobian"}

\* the vectors the finished operation was given, each with the argument of
\* the engine call that carries it
GivenAndSent ==
    CASE op = "load_urdf" ->
           IF args.position = None THEN {}
           ELSE {<< Get(args.position), Get(calls[1].pos[2]) >>}
      [] op = "create_body" -> {<< args.position, calls[1].kw["basePosition"] >>}
      [] op = "ray_test" -> {<< args.position, calls[1].pos[1] >>,
                             << args.to_position, calls[1].pos[2] >>}
      [] op = "calculate_jacobian" -> {<< args.position, calls[1].kw["localPosition"] >>}

\* C14: a position given as a numeric array to load_urdf, create_body,
\* ray_test (both ends of the ray) or calculate_jacobian reaches the engine
\* as the list of the same three components in the same order, and a
\* position given as a tuple or a list reaches it as it is; set_gravity
\* passes the three components of the gravity vector in the order x, y, z,
\* and the engine has that gravity afterwards.
C14_ComponentsInOrder ==
    /\ (pc = "done" /\ op \in VectorOperations) =>
           \A p \in GivenAndSent :
              /\ Components(p[2]) = Components(p[1])
              /\ Len(Components(p[2])) = 3
              /\ isinstance(p[1], "ndarray") => p[2] = PyList(p[1].data)
              /\ ~isinstance(p[1], "ndarray") => p[2] = p[1]
    /\ (pc = "done" /\ op = "set_gravity") =>
           /\ Len(calls) = 1
           /\ calls[1].pos = Components(args.position)
           /\ engine.gravity = Components(args.position)

\* a ray from a column of three numbers to an array of three numbers
C14_Witness ==
    /\ pc = "done"
    /\ op = "ray_test"
    /\ args.position = np_array2(<< <<1>>, <<2>>, <<3>> >>)
    /\ args.to_position = PyList(<< 3, 2, 1 >>)
    /\ calls[1].pos = << PyList(<< 1, 2, 3 >>), PyList(<< 3, 2, 1 >>) >>
    /\ err = "none"


(***************************************************************************)
(* C15: the logger id                                                      *)
(***************************************************************************)
\* the logger the last engine call started
LoggerStarted == engine.loggers \ pre.loggers

\* C15: start_logging returns the non-negative id of the logger the engine
\* has started, so that in id = start_logging(...); stop_logging(id) the
\* second call stops exactly that logger.
C15_StopStopsTheLoggerStarted ==
    /\ (pc = "done" /\ op = "start_logging" /\ err = "none") =>
           /\ ret # None
           /\ Get(ret) \in Nat
           /\ LoggerStarted = {Get(ret)}
    /\ (pc = "done" /\ op = "stop_logging" /\ args.sequel) =>
           /\ err = "none"
           /\ pre.loggers \ engine.loggers = {pre.started - 1}


(***************************************************************************)
(* C16: the closest points                                                 *)
(***************************************************************************)
\* the links the caller has named, as keywords
LinksNamed ==
    [n \in {n \in {"linkIndexA", "linkIndexB"} :
              IF n = "linkIndexA" THEN args.link_id_a # None
              ELSE args.link_id_b # None} |->
        IF n = "linkIndexA" THEN Get(args.link_id_a) ELSE Get(args.link_id_b)]

\* C16: get_closest_points issues the engine's closest-points query with the
\* given bodies and the maximum distance, and never the contact-points
\* query; its result is the closest points of the present poses, whether or
\* not a simulation step was performed.
C16_ClosestPointsQuery ==
    (pc = "done" /\ op = "get_closest_points") =>
        /\ Len(calls) = 1
        /\ calls[1].fn = "getClosestPoints"
        /\ calls[1].pos = << args.body_a, args.body_b, args.distance >>
        /\ \A k \in 1 .. Len(calls) : calls[k].fn # "getContactPoints"
        /\ err = "none" =>
             Get(ret) = PointsAsArrays(ClosestPointsOf(pre,
                            [n \in {"bodyA", "bodyB"} \cup DOMAIN LinksNamed |->
                                CASE n = "bodyA" -> args.body_a
                                  [] n = "bodyB" -> args.body_b
                                  [] OTHER -> LinksNamed[n]],
                            args.distance))


(***************************************************************************)
(* C17: the angular velocities of the links                                *)
(***************************************************************************)
\* the angular velocity the engine holds for a link: the second component
\* of getBaseVelocity for the base, the eighth of getLinkState otherwise
AngularVelocityOf(e, l) ==
    IF l = -1 THEN BaseVelocityOf(e)[2] ELSE LinkStateOf(e, l, TRUE)[8]

\* C17: get_link_world_angular_velocities returns the angular velocity of
\* every link asked for, the base (-1) included, for which it is the second
\* component of the base velocity.
C17_AngularVelocityOfEveryLink ==
    (pc = "done" /\ op = "get_link_world_angular_velocities" /\ err = "none") =>
        IF isinstance(args.ids, "int")
        THEN Get(ret) = np_array(AngularVelocityOf(pre, args.ids.v))
        ELSE Get(ret) = np_array2([k \in 1 .. Len(args.ids.v) |->
                                      AngularVelocityOf(pre, args.ids.v[k])])


(***************************************************************************)
(* C18: velocity commands without a maximum force                          *)
(***************************************************************************)
\* C18: set_joint_velocities called without max_force forwards velocity
\* commands only: no engine call carries a force or forces keyword, not
\* even one whose value is None.
C18_NoForceKeywordWithoutMaxForce ==
    (pc = "done" /\ op = "set_joint_velocities" /\ args.max_force = None) =>
        \A k \in 1 .. Len(calls) :
            /\ calls[k].kw[IF calls[k].fn = "setJointMotorControl2"
                           THEN "targetVelocity" ELSE "targetVelocities"]
                 = ValuesFor(args.joint_ids)
            /\ DOMAIN calls[k].kw \cap {"force", "forces"} = {}


(***************************************************************************)
(* C19: the geometry parameters of a shape                                 *)
(***************************************************************************)
\* the keywords that place and colour a shape, whatever its kind
FrameKeywords ==
    {VisualShapeTable[i][2] : i \in 1 .. Len(VisualShapeTable)}
    \cup {CollisionShapeTable[i][2] : i \in 1 .. Len(CollisionShapeTable)}
\* the geometry keywords documented for a kind, with the caller's values;
\* the height of a collision shape is the length of a visual shape
Documented(o, shape_type, g, filename) ==
    LET long == IF o = "create_visual_shape" THEN "length" ELSE "height"
    IN  CASE shape_type = GEOM_SPHERE -> [k \in {"radius"} |-> g.radius]
          [] shape_type = GEOM_BOX -> [k \in {"halfExtents"} |-> g.half_extents]
          [] shape_type \in {GEOM_CAPSULE, GEOM_CYLINDER} ->
               Kw(<< "radius", long >>, << g.radius, g[long] >>)
          [] shape_type = GEOM_PLANE -> [k \in {"planeNormal"} |-> g.plane_normal]
          [] shape_type = GEOM_MESH ->
               Kw(<< "fileName", "meshScale" >>, << Get(filename), g.mesh_scale >>)

\* C19: create_visual_shape and create_collision_shape forward, for each
\* kind, exactly the geometry parameters documented for it: radius for a
\* sphere; half extents for a box; radius and length/height for a capsule
\* and a cylinder; plane normal for a plane; file name and mesh scale for a
\* mesh, so that the caller's mesh_scale reaches the engine.
C19_DocumentedGeometryForwarded ==
    (pc = "done" /\ op \in ShapeCreation /\ args.shape_type \in GeomKinds
       /\ (args.shape_type = GEOM_MESH => args.filename # None)) =>
        LET d == Documented(op, args.shape_type, args.g, args.filename)
            kw == calls[1].kw
        IN  /\ DOMAIN kw \ FrameKeywords = DOMAIN d
            /\ \A k \in DOMAIN d : kw[k] = d[k]

\* what does hold: the same for every kind but the mesh, of which only the
\* file name is forwarded
C19_GeometryForwardedButMeshScale ==
    (pc = "done" /\ op \in ShapeCreation /\ args.shape_type \in GeomKinds
       /\ (args.shape_type = GEOM_MESH => args.filename # None)) =>
        LET d == Documented(op, args.shape_type, args.g, args.filename)
            kw == calls[1].kw
        IN  /\ DOMAIN kw \ FrameKeywords = DOMAIN d \ {"meshScale"}
            /\ \A k \in DOMAIN d \ {"meshScale"} : kw[k] = d[k]


C21_LoadOfWhatSaveReturned ==
    (pc = "done" /\ op = "load" /\ args.returned) =>
        /\ Len(calls) = 1
        /\ calls[1].fn = "restoreState"
        /\ err = "none" => World(engine) = held.world

\* what does hold: the same for a state saved in memory, save()
C21_LoadOfStateId ==
    (pc = "done" /\ op = "load" /\ args.returned /\ isinstance(args.state, "int")) =>
        /\ Len(calls) = 1
        /\ calls[1] = Call("restoreState", <<>>, [k \in {"stateId"} |-> args.state.v])
        /\ err = "none" => World(engine) = held.world


(***************************************************************************)
(* C22: accelerations as torques                                           *)
(***************************************************************************)
\* the joint ids and the accelerations a caller passed, as sequences
Sequence(x) == IF isinstance(x, "int") THEN << x.v >> ELSE ToList(x)
\* the place of a joint in the vectors of the actuated joints (from 1)
Place(e, j) == QIndexOf(e, j) - 6
\* the accelerations of all actuated joints: those given for the joints
\* named, none for the others
Embedded(e, ids, acc) ==
    [c \in 1 .. Cardinality(Actuated(e)) |->
        IF \E k \in 1 .. Len(ids) : Place(e, ids[k]) = c
        THEN acc[CHOOSE k \in 1 .. Len(ids) : Place(e, ids[k]) = c] ELSE 0]
\* the inverse dynamics call among the calls issued
Dynamics == {k \in 1 .. Len(calls) : calls[k].fn = "calculateInverseDynamics"}

\* the call of set_joint_accelerations the claim is about: distinct actuated
\* joints, all or some of them, with as many accelerations
SomeActuatedJoints ==
    /\ pc = "done"
    /\ op = "set_joint_accelerations"
    /\ Given(args.accelerations) = Given(args.joint_ids)
    /\ LET ids == Sequence(args.joint_ids)
       IN  /\ Range(ids) \subseteq Actuated(pre)
           /\ \A k, m \in 1 .. Len(ids) : ids[k] = ids[m] => k = m

\* C22: set_joint_accelerations with one joint id or a list of them, all or
\* some of the actuated joints, and as many accelerations, raises no error
\* of its own, and its last engine call is a torque-control command to
\* exactly these joints, whose torques are those of the inverse dynamics
\* for these joints.
C22_TorquesForTheJointsGiven ==
    SomeActuatedJoints =>
        LET ids == Sequence(args.joint_ids)
            acc == Sequence(args.accelerations)
            last == calls[Len(calls)]
        IN  /\ err \in {"none", "engine"}
            /\ last.fn \in {"setJointMotorControl2", "setJointMotorControlArray"}
            /\ ModeOf(last) = TORQUE_CONTROL
            /\ Sequence(last.pos[2]) = ids
            /\ \E d \in Dynamics :
                 /\ calls[d].pos[4] = Embedded(pre, ids, acc)
                 /\ ToList(last.kw["forces"]) =
                      [k \in 1 .. Len(ids) |->
                          InverseDynamicsOf(pre, calls[d].pos[2], calls[d].pos[3],
                                            calls[d].pos[4])[Place(pre, ids[k])]]

\* what does hold: the same when the joints named are all the actuated
\* joints, in increasing order
C22_TorquesForAllJointsInOrder ==
    (SomeActuatedJoints
       /\ Len(Sequence(args.joint_ids)) = Cardinality(Actuated(pre))
       /\ \A k \in 1 .. Len(Sequence(args.joint_ids)) :
             Place(pre, Sequence(args.joint_ids)[k]) = k) =>
        LET ids == Sequence(args.joint_ids)
            acc == Sequence(args.accelerations)
            last == calls[Len(calls)]
        IN  /\ err \in {"none", "engine"}
            /\ last.fn = "setJointMotorControlArray"
            /\ ModeOf(last) = TORQUE_CONTROL
            /\ Sequence(last.pos[2]) = ids
            /\ \E d \in Dynamics :
                 /\ calls[d].pos[4] = acc
                 /\ ToList(last.kw["forces"]) =
                      InverseDynamicsOf(pre, calls[d].pos[2], calls[d].pos[3], acc)


(***************************************************************************)
(* C23: one joint or several                                               *)
(***************************************************************************)
JointCommandSetters == {"set_joint_positions", "set_joint_velocities", "set_joint_torques"}

\* C23: set_joint_positions, set_joint_velocities and set_joint_torques
\* called with one integer joint id issue single-joint commands only
\* (setJointMotorControl2), and called with a collection of joint ids issue
\* one array command (setJointMotorControlArray) and no single-joint command.
C23_DispatchOnArity ==
    (pc = "done" /\ op \in JointCommandSetters) =>
        IF isinstance(args.joint_ids, "int")
        THEN /\ calls # <<>>
             /\ \A k \in 1 .. Len(calls) : calls[k].fn = "setJointMotorControl2"
        ELSE /\ Len(calls) = 1
             /\ calls[1].fn = "setJointMotorControlArray"

\* what does hold: set_joint_positions always dispatches so, and the other
\* two issue no single-joint command for a collection
C23_DispatchOfPositions ==
    (pc = "done" /\ op \in JointCommandSetters) =>
        /\ op = "set_joint_positions" =>
              /\ Len(calls) = 1
              /\ calls[1].fn = IF isinstance(args.joint_ids, "int")
                               THEN "setJointMotorControl2"
                               ELSE "setJointMotorControlArray"
        /\ isinstance(args.joint_ids, "list") =>
              \A k \in 1 .. Len(calls) : calls[k].fn = "setJointMotorControlArray"


(***************************************************************************)
(* C24: the actuated joints                                                *)
(***************************************************************************)
\* C24: for a body with any number of joints of any types,
\* get_actuated_joint_ids returns the ids of the joints that are not fixed,
\* each once, in increasing order; hence an empty list when all joints are
\* fixed or there is none.
C24_ActuatedJointsInOrder ==
    (pc = "done" /\ op = "get_actuated_joint_ids") =>
        /\ err = "none"
        /\ isinstance(Get(ret), "list")
        /\ LET ids == Get(ret).v
           IN  /\ Range(ids) = {j \in 0 .. pre.numJoints - 1 :
                                  pre.jointType[j] # JOINT_FIXED}
               /\ \A k, m \in 1 .. Len(ids) : k < m => ids[k] < ids[m]
               /\ ((\A j \in 0 .. pre.numJoints - 1 : pre.jointType[j] = JOINT_FIXED)
                     => ids = <<>>)

\* a body whose first joint is fixed and whose second is prismatic
C24_Witness ==
    /\ pc = "done"
    /\ op = "get_actuated_joint_ids"
    /\ pre.numJoints = 2
    /\ pre.jointType[0] = JOINT_FIXED
    /\ pre.jointType[1] = JOINT_PRISMATIC
    /\ ret = Some(PyList(<<1>>))
    /\ Len(calls) = 3

====
